---------------------------- MODULE Spec2Model ----------------------------
(***************************************************************************)
(* A model of pb_dbhandler.pgpass: the PgPassFile reader of a .pgpass      *)
(* credential file, its line parser and the PgPassEntry matcher, and of     *)
(* the password lookup of pb_dbhandler.handler.BaseDbHandler.               *)
(*                                                                         *)
(* Texts (Python str values) are sequences of one-character strings, so    *)
(* that splitting, stripping, unescaping and case folding are computed     *)
(* character by character as the code computes them.  An optional value    *)
(* (Python None or a value) is the empty tuple or a one-element tuple.     *)
(***************************************************************************)
EXTENDS Integers, Sequences, FiniteSets, TLC

VARIABLES
    fexists,    \* the credential file exists on disk
    fowned,     \* the file belongs to the user the process runs as
    fmode,      \* the permission bits of the file (st_mode & 0777)
    fcontent,   \* the text of the file
    pgpass,     \* the PgPassFile object the caller holds
    last,       \* the last call made and what it returned or raised
    intent,     \* the field values the author of the file meant it to hold
    home,       \* os.environ['HOME'] when the module was imported, if set
    handler,    \* the BaseDbHandler object the caller holds
    driver,     \* the connections and cursors psycopg2 has created
    calls       \* the PgPassFile calls in progress in concurrent callers

vars == <<fexists, fowned, fmode, fcontent, pgpass, last, intent, home, handler,
          driver, calls>>

(***************************************************************************)
(* Python values                                                           *)
(***************************************************************************)
None == <<>>

Some(v) == <<v>>

IsNone(o) == o = <<>>

Val(o) == o[1]

BS == "\\"

COLON == ":"

STAR == "*"

HASH == "#"

NL == "\n"

CR == "\r"

UpperChars == <<"A", "B", "C", "D", "E", "F", "G", "H", "I", "J", "K", "L", "M",
                "N", "O", "P", "Q", "R", "S", "T", "U", "V", "W", "X", "Y", "Z">>

LowerChars == <<"a", "b", "c", "d", "e", "f", "g", "h", "i", "j", "k", "l", "m",
                "n", "o", "p", "q", "r", "s", "t", "u", "v", "w", "x", "y", "z">>

DigitChars == <<"0", "1", "2", "3", "4", "5", "6", "7", "8", "9">>

\* str.lower() on one character
LowerChar(c) ==
    IF \E i \in 1..Len(UpperChars) : UpperChars[i] = c
    THEN LowerChars[CHOOSE i \in 1..Len(UpperChars) : UpperChars[i] = c]
    ELSE c

\* str.lower()
Lower(s) == [i \in 1..Len(s) |-> LowerChar(s[i])]

\* '\x0b', the vertical tab
VT == ""

\* the characters str.strip() removes and int() skips: string.whitespace
IsSpace(c) == c \in {" ", "\t", NL, CR, VT, "\f"}

IsDigit(c) == \E i \in 1..Len(DigitChars) : DigitChars[i] = c

DigitVal(c) == (CHOOSE i \in 1..Len(DigitChars) : DigitChars[i] = c) - 1

RECURSIVE LStrip(_)
LStrip(s) ==
    IF s # <<>> /\ IsSpace(Head(s)) THEN LStrip(Tail(s)) ELSE s

RECURSIVE RStrip(_)
RStrip(s) ==
    IF s # <<>> /\ IsSpace(s[Len(s)]) THEN RStrip(SubSeq(s, 1, Len(s) - 1)) ELSE s

\* str.strip()
Strip(s) == RStrip(LStrip(s))

\* str.splitlines(): breaks at \n, \r and \r\n; no empty last line
RECURSIVE SplitLinesFrom(_, _, _)
SplitLinesFrom(s, i, cur) ==
    IF i > Len(s) THEN (IF cur = <<>> THEN <<>> ELSE <<cur>>)
    ELSE IF s[i] = NL THEN <<cur>> \o SplitLinesFrom(s, i + 1, <<>>)
    ELSE IF s[i] = CR
         THEN IF i < Len(s) /\ s[i + 1] = NL
              THEN <<cur>> \o SplitLinesFrom(s, i + 2, <<>>)
              ELSE <<cur>> \o SplitLinesFrom(s, i + 1, <<>>)
    ELSE SplitLinesFrom(s, i + 1, Append(cur, s[i]))

SplitLines(s) == SplitLinesFrom(s, 1, <<>>)

\* str.replace(old, new) for a two-character old and a one-character new:
\* occurrences are found left to right and do not overlap
RECURSIVE Replace2(_, _, _, _)
Replace2(s, o1, o2, new) ==
    IF Len(s) < 2 THEN s
    ELSE IF s[1] = o1 /\ s[2] = o2
         THEN <<new>> \o Replace2(SubSeq(s, 3, Len(s)), o1, o2, new)
         ELSE <<s[1]>> \o Replace2(Tail(s), o1, o2, new)

\* the two replacements in the other order
UnescapeColonFirst(f) == Replace2(Replace2(f, BS, COLON, COLON), BS, BS, BS)

\* fields[k].replace('\\\\', '\\').replace('\\:', ':')
Unescape(f) == Replace2(Replace2(f, BS, BS, BS), BS, COLON, COLON)

\* re_fields = re.compile(r'(?<!\\):'): a colon not preceded by a backslash
IsSeparator(line, i) ==
    /\ line[i] = COLON
    /\ ~(i > 1 /\ line[i - 1] = BS)

\* re_fields.split(line, maxsplit): at most maxsplit splits, the rest of the
\* line is the last field
RECURSIVE SplitFrom(_, _, _, _)
SplitFrom(line, i, start, left) ==
    IF i > Len(line) \/ left = 0 THEN <<SubSeq(line, start, Len(line))>>
    ELSE IF IsSeparator(line, i)
         THEN <<SubSeq(line, start, i - 1)>> \o SplitFrom(line, i + 1, i + 1, left - 1)
         ELSE SplitFrom(line, i + 1, start, left)

MaxSplit == 4

NFields == 5

\* a split at every unescaped colon (no maxsplit)
SplitEveryColon(line) == SplitFrom(line, 1, 1, Len(line))

SplitFields(line) == SplitFrom(line, 1, 1, MaxSplit)

RECURSIVE DigitsValue(_, _)
DigitsValue(s, acc) ==
    IF s = <<>> THEN acc ELSE DigitsValue(Tail(s), acc * 10 + DigitVal(Head(s)))

AllDigits(s) == s # <<>> /\ \A i \in 1..Len(s) : IsDigit(s[i])

\* int(text): surrounding whitespace is dropped, one sign is allowed and
\* whitespace may follow it, the rest must be decimal digits; anything else
\* raises ValueError
IntBody(s) == IF s # <<>> /\ Head(s) \in {"+", "-"} THEN LStrip(Tail(s)) ELSE s

IntParses(s) == AllDigits(IntBody(Strip(s)))

IntValue(s) ==
    LET t == Strip(s)
        v == DigitsValue(IntBody(t), 0)
    IN  IF Head(t) = "-" THEN 0 - v ELSE v


(***************************************************************************)
(* PgPassEntry                                                             *)
(***************************************************************************)
NoExc == "none"

NotExistsError == "PgPassFileNotExistsError"

NotReadableError == "PgPassFileNotReadableError"

Returned(v) == [exc |-> NoExc, value |-> v]

Raised(e) == [exc |-> e, value |-> None]

\* PgPassEntry.__init__: the five properties of one valid line
PgPassEntry(hostname, port, database, username, password) ==
    [hostname |-> hostname, port |-> port, database |-> database,
     username |-> username, password |-> password]

\* the arguments of match and get_passwd
Query(h, p, d, u) == [hostname |-> h, port |-> p, database |-> d, username |-> u]

\* a query value on which .lower() can be called
HasLower(q) == ~IsNone(q)

\* a comparison that forgets .lower()
StrDiffersExact(mine, theirs) == mine # theirs

\* one string comparison of PgPassEntry.match: mine.lower() != theirs.lower()
StrDiffers(mine, theirs) == Lower(mine) # Lower(theirs)

\* PgPassEntry.match(hostname, port, database, username): the checks are
\* made in the order of the code, and the first that fails or raises ends it
Match(e, q) ==
    IF IsNone(q.port) THEN Raised("TypeError")
    ELSE IF ~IsNone(e.hostname) /\ ~HasLower(q.hostname) THEN Raised("AttributeError")
    ELSE IF ~IsNone(e.hostname) /\ StrDiffers(Val(e.hostname), Val(q.hostname))
         THEN Returned(FALSE)
    ELSE IF ~IsNone(e.port) /\ Val(e.port) # Val(q.port) THEN Returned(FALSE)
    ELSE IF ~IsNone(e.database) /\ ~HasLower(q.database) THEN Raised("AttributeError")
    ELSE IF ~IsNone(e.database) /\ StrDiffers(Val(e.database), Val(q.database))
         THEN Returned(FALSE)
    ELSE IF ~IsNone(e.username) /\ ~HasLower(q.username) THEN Raised("AttributeError")
    ELSE IF ~IsNone(e.username) /\ StrDiffers(Val(e.username), Val(q.username))
         THEN Returned(FALSE)
    ELSE Returned(TRUE)

(***************************************************************************)
(* PgPassFile.entries: the parser                                          *)
(***************************************************************************)
\* a comment test that wants a blank after the #
IsCommentHashBlank(line) == Len(line) >= 2 /\ line[1] = HASH /\ line[2] = " "

\* re_comment = re.compile(r'^#') searched in the stripped, non-empty line
IsComment(line) == line[1] = HASH

\* a wildcard test that looks at the first character only
IsWildcardPrefix(f) == f # <<>> /\ f[1] = STAR

\* a field that stands for "any value": fields[k] != '*' is false
IsWildcard(f) == f = <<STAR>>

\* hostname, database, username: None for '*', else the unescaped field
FieldValue(f) == IF IsWildcard(f) THEN None ELSE Some(Unescape(f))

\* port = int(fields[1]) inside try
PortValue(f) ==
    IF IntParses(f) THEN Returned(IntValue(f)) ELSE Raised("ValueError")

\* int() without a handler around it
CaughtNothing(exc) == FALSE

\* except ValueError: the exceptions the handler around int() catches
Caught(exc) == exc = "ValueError"

\* one pass of the loop body: what the line contributes
\*   kind "blank", "comment", "fields", "port": the loop continues
\*   kind "entry": the entry is appended;  kind "raise": exc leaves entries()
ParseLine(raw) ==
    LET line == Strip(raw)
        fields == SplitFields(line)
        port == PortValue(fields[2])
        skip(k) == [kind |-> k, entry |-> None, exc |-> NoExc]
    IN  IF line = <<>> THEN skip("blank")
        ELSE IF IsComment(line) THEN skip("comment")
        ELSE IF Len(fields) # NFields THEN skip("fields")
        ELSE IF ~IsWildcard(fields[2]) /\ port.exc # NoExc
             THEN IF Caught(port.exc) THEN skip("port")
                  ELSE [kind |-> "raise", entry |-> None, exc |-> port.exc]
        ELSE [kind |-> "entry",
              entry |-> Some(PgPassEntry(
                  FieldValue(fields[1]),
                  IF IsWildcard(fields[2]) THEN None ELSE Some(port.value),
                  FieldValue(fields[3]),
                  FieldValue(fields[4]),
                  Unescape(fields[5]))),
              exc |-> NoExc]

\* the loop leaving at a line with the wrong number of fields (break for continue)
RECURSIVE ParseLinesStopAtBad(_, _, _)
ParseLinesStopAtBad(lines, result, warns) ==
    IF lines = <<>> THEN [exc |-> NoExc, value |-> result, warns |-> warns]
    ELSE LET p == ParseLine(Head(lines))
         IN  IF p.kind = "raise" THEN [exc |-> p.exc, value |-> None, warns |-> warns]
             ELSE IF p.kind = "fields"
                  THEN [exc |-> NoExc, value |-> result, warns |-> Append(warns, p.kind)]
             ELSE IF p.kind = "entry"
                  THEN ParseLinesStopAtBad(Tail(lines), Append(result, Val(p.entry)), warns)
             ELSE IF p.kind = "port"
                  THEN ParseLinesStopAtBad(Tail(lines), result, Append(warns, p.kind))
             ELSE ParseLinesStopAtBad(Tail(lines), result, warns)

\* the loop appending an entry only when the result does not hold an equal one
RECURSIVE ParseLinesNoDuplicates(_, _, _)
ParseLinesNoDuplicates(lines, result, warns) ==
    IF lines = <<>> THEN [exc |-> NoExc, value |-> result, warns |-> warns]
    ELSE LET p == ParseLine(Head(lines))
         IN  IF p.kind = "raise" THEN [exc |-> p.exc, value |-> None, warns |-> warns]
             ELSE IF p.kind = "entry"
                  THEN ParseLinesNoDuplicates(
                           Tail(lines),
                           IF \E k \in 1..Len(result) : result[k] = Val(p.entry)
                           THEN result ELSE Append(result, Val(p.entry)),
                           warns)
             ELSE IF p.kind \in {"fields", "port"}
                  THEN ParseLinesNoDuplicates(Tail(lines), result, Append(warns, p.kind))
             ELSE ParseLinesNoDuplicates(Tail(lines), result, warns)

\* the kinds of line for which the loop calls log.warn(msg)
Warned(kind) == kind \in {"fields", "port"}

\* for line in content.splitlines(): ... result.append(entry)
\* warns are the log.warn calls made so far, by kind
RECURSIVE ParseLines(_, _, _)
ParseLines(lines, result, warns) ==
    IF lines = <<>> THEN [exc |-> NoExc, value |-> result, warns |-> warns]
    ELSE LET p == ParseLine(Head(lines))
         IN  IF p.kind = "raise" THEN [exc |-> p.exc, value |-> None, warns |-> warns]
             ELSE IF p.kind = "entry"
                  THEN ParseLines(Tail(lines), Append(result, Val(p.entry)), warns)
             ELSE IF Warned(p.kind)
                  THEN ParseLines(Tail(lines), result, Append(warns, p.kind))
             ELSE ParseLines(Tail(lines), result, warns)

\* the body of entries() after content = self.read()
ParseContent(content) ==
    IF content = <<>> THEN [exc |-> NoExc, value |-> <<>>, warns |-> <<>>]
    ELSE ParseLines(SplitLines(content), <<>>, <<>>)

(***************************************************************************)
(* The file system and PgPassFile.read                                     *)
(***************************************************************************)
SLASH == "/"

DOT == "."

\* the fixed name '.pgpass'
DotPgpass == <<DOT, "p", "g", "p", "a", "s", "s">>

\* os.path.dirname(sys.argv[0]): the directory of the tests, which is also
\* the working directory of the process
TestDir == <<SLASH, "t">>

Cwd == TestDir

\* the one credential file of the model
FilePath == TestDir \o <<SLASH>> \o DotPgpass

\* a symbolic link to FilePath
LinkPath == TestDir \o <<SLASH, "l", "n">>

MissingPath == FilePath \o <<"-", "b", "l", "i", "b", "l", "a", "b", "l", "u", "b">>

\* FilePath written with two slashes at its beginning
SlashSlashPath == <<SLASH>> \o FilePath

\* the names given to the constructor: the file, the link to it, a name
\* that leads nowhere, the file with two slashes, and a directory
Paths == {FilePath, LinkPath, MissingPath, SlashSlashPath, TestDir}

\* os.path.isabs
IsAbs(p) == p # <<>> /\ p[1] = SLASH

\* os.path.join(a, b)
Join(a, b) ==
    IF IsAbs(b) THEN b
    ELSE IF a = <<>> \/ a[Len(a)] = SLASH THEN a \o b
    ELSE a \o <<SLASH>> \o b

\* path.split('/')
RECURSIVE SplitSlashFrom(_, _, _)
SplitSlashFrom(p, i, start) ==
    IF i > Len(p) THEN <<SubSeq(p, start, Len(p))>>
    ELSE IF p[i] = SLASH
         THEN <<SubSeq(p, start, i - 1)>> \o SplitSlashFrom(p, i + 1, i + 1)
         ELSE SplitSlashFrom(p, i + 1, start)

\* '/'.join(comps)
RECURSIVE JoinSlash(_)
JoinSlash(comps) ==
    IF comps = <<>> THEN <<>>
    ELSE IF Len(comps) = 1 THEN comps[1]
    ELSE comps[1] \o <<SLASH>> \o JoinSlash(Tail(comps))

\* the loop of os.path.normpath over the components: '' and '.' are
\* dropped, '..' takes the component before it away
RECURSIVE NormComps(_, _, _)
NormComps(comps, new, initial) ==
    IF comps = <<>> THEN new
    ELSE LET c == Head(comps)
         IN  IF c = <<>> \/ c = <<DOT>> THEN NormComps(Tail(comps), new, initial)
             ELSE IF \/ c # <<DOT, DOT>>
                     \/ (initial = 0 /\ new = <<>>)
                     \/ (new # <<>> /\ new[Len(new)] = <<DOT, DOT>>)
                  THEN NormComps(Tail(comps), Append(new, c), initial)
             ELSE IF new # <<>>
                  THEN NormComps(Tail(comps), SubSeq(new, 1, Len(new) - 1), initial)
             ELSE NormComps(Tail(comps), new, initial)

\* the number of leading slashes normpath keeps: exactly two stay two
InitialSlashes(p) ==
    IF ~IsAbs(p) THEN 0
    ELSE IF Len(p) >= 2 /\ p[2] = SLASH /\ ~(Len(p) >= 3 /\ p[3] = SLASH) THEN 2
    ELSE 1

\* os.path.normpath
NormPath(p) ==
    LET n == InitialSlashes(p)
        r == (IF n = 2 THEN <<SLASH, SLASH>> ELSE IF n = 1 THEN <<SLASH>> ELSE <<>>)
             \o JoinSlash(NormComps(SplitSlashFrom(p, 1, 1), <<>>, n))
    IN  IF r = <<>> THEN <<DOT>> ELSE r

\* os.path.abspath
AbsPath(p) == NormPath(IF IsAbs(p) THEN p ELSE Join(Cwd, p))

\* the directories of the model: the root, the directory of the tests and
\* the home directory without a .pgpass
Root == <<SLASH>>

HomeDir == <<SLASH, "h">>

Directories == {Root, TestDir, HomeDir}

\* what a name resolves to: a directory, the credential file, or nothing
DirNode(d) == [kind |-> "dir", path |-> d]

FileNode == [kind |-> "file", path |-> FilePath]

NoNode == [kind |-> "none", path |-> <<>>]

\* the entry called name of the directory dir, a final symbolic link followed:
\* the link leads to the credential file, which is there or not
Lookup(dir, name) ==
    IF name = <<>> \/ name = <<DOT>> THEN DirNode(dir)
    ELSE IF name = <<DOT, DOT>> THEN DirNode(Root)
    ELSE IF Join(dir, name) \in Directories THEN DirNode(Join(dir, name))
    ELSE IF Join(dir, name) \in {FilePath, LinkPath} /\ fexists THEN FileNode
    ELSE NoNode

\* the kernel resolving a name component by component: every component
\* but the last has to be a directory, and so has the last one before a
\* trailing slash
RECURSIVE Walk(_, _)
Walk(names, node) ==
    IF names = <<>> THEN node
    ELSE IF node.kind # "dir" THEN NoNode
    ELSE Walk(Tail(names), Lookup(node.path, Head(names)))

\* the file or directory a name leads to; the empty name leads nowhere
Resolve(p) ==
    IF p = <<>> THEN NoNode
    ELSE Walk(SplitSlashFrom(p, 1, 1), DirNode(IF IsAbs(p) THEN Root ELSE Cwd))

\* os.path.islink: lstat() of the name tells a symbolic link
IsLink(p) ==
    LET names == SplitSlashFrom(p, 1, 1)
        dir == Walk(SubSeq(names, 1, Len(names) - 1),
                    DirNode(IF IsAbs(p) THEN Root ELSE Cwd))
    IN  /\ p # <<>>
        /\ dir.kind = "dir"
        /\ Join(dir.path, names[Len(names)]) = LinkPath

\* the index of the last slash of p, 0 when it has none
RECURSIVE LastSlash(_, _)
LastSlash(p, i) ==
    IF i = 0 THEN 0 ELSE IF p[i] = SLASH THEN i ELSE LastSlash(p, i - 1)

\* head.rstrip('/')
RECURSIVE RStripSlash(_)
RStripSlash(p) ==
    IF p # <<>> /\ p[Len(p)] = SLASH THEN RStripSlash(SubSeq(p, 1, Len(p) - 1)) ELSE p

\* posixpath.split
PathSplit(p) ==
    LET i == LastSlash(p, Len(p))
        head == SubSeq(p, 1, i)
        tail == SubSeq(p, i + 1, Len(p))
    IN  [head |-> IF head # <<>> /\ \E k \in 1..Len(head) : head[k] # SLASH
                  THEN RStripSlash(head) ELSE head,
         tail |-> tail]

\* the loop of posixpath._joinrealpath over the names of the rest: '' and
\* '.' are passed over, '..' takes the last name of path away, a symbolic
\* link is replaced by what it leads to
RECURSIVE JoinRealPath(_, _)
JoinRealPath(path, names) ==
    IF names = <<>> THEN path
    ELSE LET name == Head(names)
             sp == PathSplit(path)
             newpath == Join(path, name)
         IN  IF name = <<>> \/ name = <<DOT>> THEN JoinRealPath(path, Tail(names))
             ELSE IF name = <<DOT, DOT>>
                  THEN JoinRealPath(
                           IF path = <<>> THEN <<DOT, DOT>>
                           ELSE IF sp.tail = <<DOT, DOT>>
                                THEN Join(Join(sp.head, <<DOT, DOT>>), <<DOT, DOT>>)
                                ELSE sp.head,
                           Tail(names))
             ELSE IF IsLink(newpath) THEN JoinRealPath(FilePath, Tail(names))
             ELSE JoinRealPath(newpath, Tail(names))

\* os.path.realpath: the names joined with symbolic links followed, and
\* abspath() of that; the slashes a name begins with become one
RealPath(p) ==
    AbsPath(IF IsAbs(p) THEN JoinRealPath(Root, SplitSlashFrom(Tail(p), 1, 1))
            ELSE IF p = <<>> THEN <<>>
            ELSE JoinRealPath(<<>>, SplitSlashFrom(p, 1, 1)))

\* os.path.exists: stat() of the name succeeds
PathExists(p) == Resolve(p).kind # "none"

\* a & b on the permission bits
RECURSIVE BitAnd(_, _)
BitAnd(a, b) ==
    IF a = 0 \/ b = 0 THEN 0
    ELSE (a % 2) * (b % 2) + 2 * BitAnd(a \div 2, b \div 2)

S_IRUSR == 256

S_IROTH == 4

\* the process may read the file: os.access(file, os.R_OK) looks at the
\* read bit of the owner for a file of its own and at the read bit of
\* others for a file of another user and group
faccess == BitAnd(fmode, IF fowned THEN S_IRUSR ELSE S_IROTH) # 0

\* os.access(name, os.R_OK): directories are readable
PathReadable(p) ==
    LET n == Resolve(p) IN n.kind = "dir" \/ (n.kind = "file" /\ faccess)

\* the module variable default_pgpass_file, computed at import:
\* os.path.abspath(os.path.join(os.environ['HOME'], '.pgpass')), and
\* '.pgpass' on KeyError
default_pgpass_file ==
    IF IsNone(home) THEN DotPgpass ELSE AbsPath(Join(Val(home), DotPgpass))

\* a test for a missing filename by truth value: if not filename
UsedFilenameIfTrue(filename) ==
    IF IsNone(filename) \/ Val(filename) = <<>> THEN default_pgpass_file
    ELSE Val(filename)

\* if filename is None: filename = default_pgpass_file
UsedFilename(filename) ==
    IF IsNone(filename) THEN default_pgpass_file ELSE Val(filename)

S_IRWXG == 56

S_IRWXO == 7

DefaultMode == 384

\* a gate that looks at the group bits only
TooOpenGroupOnly(mode) == BitAnd(mode, S_IRWXG) # 0

\* if group_mode or other_mode
TooOpen(mode) == BitAnd(mode, S_IRWXG) # 0 \/ BitAnd(mode, S_IRWXO) # 0

\* the test that lets a too-open file through: if self.force
Forced(obj) == obj.force

\* the mode of the directories: 0755
DirMode == 7 * 64 + 5 * 8 + 5

OSError == "OSError"

IOError == "IOError"

\* os.stat(name).st_mode: the mode of the file or directory, OSError when
\* there is none
StatResult(p) ==
    LET n == Resolve(p)
    IN  IF n.kind = "none" THEN Raised(OSError)
        ELSE Returned(IF n.kind = "dir" THEN DirMode ELSE fmode)

\* self.read_file(name), inherited from pb_base: the text of the file; a
\* directory, and a file that is gone or unreadable, cannot be opened
ReadFileResult(p) ==
    LET n == Resolve(p)
    IN  IF n.kind = "file" /\ faccess THEN Returned(fcontent) ELSE Raised(IOError)

\* a caller that is in no call: content, entries and the rest are the local
\* variables of read(), entries() and get_passwd(); changed tells that
\* another program changed the file while the call ran
IdleCall ==
    [pc |-> "idle", obj |-> 1, op |-> "none", query |-> None, content |-> <<>>,
     entries |-> <<>>, exc |-> NoExc, value |-> None, fileRead |-> FALSE,
     warns |-> <<>>, changed |-> FALSE]

\* the call op(q) on the object number o, at the first statement of read()
NewCall(o, op, q) ==
    [IdleCall EXCEPT !.pc = "exists", !.obj = o, !.op = op, !.query = q]

\* raise exc: the exception leaves read(), entries() and get_passwd()
Raise(c, exc) == [c EXCEPT !.pc = "done", !.exc = exc]

\* read() returns text: to the caller, or to entries() as content
ReadReturns(c, text) ==
    [c EXCEPT !.content = text,
              !.pc = IF c.op = "read" THEN "done" ELSE "parse",
              !.value = IF c.op = "read" THEN text ELSE None]

\* if not os.path.exists(self.filename): raise PgPassFileNotExistsError
ExistsStage(c, obj) ==
    IF c.pc # "exists" THEN c
    ELSE IF PathExists(obj.filename) THEN [c EXCEPT !.pc = "access"]
    ELSE Raise(c, NotExistsError)

\* if not os.access(self.filename, os.R_OK): raise PgPassFileNotReadableError
AccessStage(c, obj) ==
    IF c.pc # "access" THEN c
    ELSE IF PathReadable(obj.filename) THEN [c EXCEPT !.pc = "stat"]
    ELSE Raise(c, NotReadableError)

\* fstat = os.stat(self.filename) and the permission gate: without force a
\* mode that is too open ends read() with '' and a log.warn call (with
\* force the message goes to log.debug)
StatStage(c, obj) ==
    LET st == StatResult(obj.filename)
    IN  IF c.pc # "stat" THEN c
        ELSE IF st.exc # NoExc THEN Raise(c, st.exc)
        ELSE IF TooOpen(st.value) /\ ~Forced(obj)
             THEN ReadReturns([c EXCEPT !.warns = <<"permissions">>], <<>>)
        ELSE [c EXCEPT !.pc = "read_file"]

\* return self.read_file(self.filename); fileRead tells that read_file()
\* was called
ReadFileStage(c, obj) ==
    LET rf == ReadFileResult(obj.filename)
    IN  IF c.pc # "read_file" THEN c
        ELSE IF rf.exc # NoExc THEN Raise([c EXCEPT !.fileRead = TRUE], rf.exc)
        ELSE ReadReturns([c EXCEPT !.fileRead = TRUE], rf.value)

\* PgPassFile.read() from its first statement to its return, when no other
\* program changes the file in between: the four stages in a row
ReadResult(obj) ==
    IF ~PathExists(obj.filename)
    THEN [exc |-> NotExistsError, value |-> None, fileRead |-> FALSE, warns |-> <<>>]
    ELSE IF ~PathReadable(obj.filename)
    THEN [exc |-> NotReadableError, value |-> None, fileRead |-> FALSE, warns |-> <<>>]
    ELSE IF TooOpen(StatResult(obj.filename).value) /\ ~Forced(obj)
    THEN [exc |-> NoExc, value |-> <<>>, fileRead |-> FALSE, warns |-> <<"permissions">>]
    ELSE IF ReadFileResult(obj.filename).exc # NoExc
    THEN [exc |-> ReadFileResult(obj.filename).exc, value |-> None, fileRead |-> TRUE,
          warns |-> <<>>]
    ELSE [exc |-> NoExc, value |-> ReadFileResult(obj.filename).value, fileRead |-> TRUE,
          warns |-> <<>>]

\* PgPassFile.entries()
EntriesResult(obj) ==
    LET r == ReadResult(obj)
        p == ParseContent(r.value)
    IN  IF r.exc # NoExc THEN r
        ELSE [exc |-> p.exc, value |-> p.value, fileRead |-> r.fileRead,
              warns |-> r.warns \o p.warns]

\* the loop without its break: the last matching entry wins
RECURSIVE FindPasswdNoBreak(_, _)
FindPasswdNoBreak(entries, q) ==
    IF entries = <<>> THEN Returned(None)
    ELSE LET m == Match(entries[Len(entries)], q)
         IN  IF m.exc # NoExc THEN Raised(m.exc)
             ELSE IF m.value THEN Returned(Some(entries[Len(entries)].password))
             ELSE FindPasswdNoBreak(SubSeq(entries, 1, Len(entries) - 1), q)

\* for entry in entries: if entry.match(...): passwd = entry.password; break
RECURSIVE FindPasswd(_, _)
FindPasswd(entries, q) ==
    IF entries = <<>> THEN Returned(None)
    ELSE LET m == Match(Head(entries), q)
         IN  IF m.exc # NoExc THEN Raised(m.exc)
             ELSE IF m.value THEN Returned(Some(Head(entries).password))
             ELSE FindPasswd(Tail(entries), q)

\* PgPassFile.get_passwd(hostname, port, database, username)
GetPasswdResult(obj, q) ==
    LET r == EntriesResult(obj)
        f == FindPasswd(r.value, q)
    IN  IF r.exc # NoExc THEN r
        ELSE [exc |-> f.exc, value |-> f.value, fileRead |-> r.fileRead,
              warns |-> r.warns]

(***************************************************************************)
(* Calls and their results                                                 *)
(***************************************************************************)
NoPath == <<>>

\* no PgPassFile has been constructed yet
NoObject == [initialized |-> FALSE, filename |-> NoPath, force |-> FALSE]

\* no call has been made since the file last changed
NoCall == [op |-> "none", args |-> None, exc |-> NoExc, value |-> None,
           fileRead |-> FALSE, warns |-> <<>>, changed |-> FALSE]

\* the call op(args) returned r; changed tells that another program changed
\* the file while the call ran
Call(op, args, r) ==
    [op |-> op, args |-> args, exc |-> r.exc, value |-> r.value,
     fileRead |-> r.fileRead, warns |-> r.warns, changed |-> FALSE]

\* the constructor keeping the path as given
StoredFilenameAsGiven(path) == path

\* self._filename = os.path.realpath(filename)
StoredFilename(path) == RealPath(path)

\* PgPassFile(filename = filename, force = force); filename is None when
\* the caller gives none, and path is the name the constructor goes on with
Construct(filename, force) ==
    /\ \A t \in DOMAIN calls.threads : calls.threads[t].pc = "idle"
    /\ LET path == UsedFilename(filename)
           args == [filename |-> filename, path |-> path, force |-> force]
       IN  IF ~PathExists(path)
           THEN /\ last' = Call("init", args,
                                [exc |-> NotExistsError, value |-> None,
                                 fileRead |-> FALSE, warns |-> <<>>])
                /\ UNCHANGED pgpass
           ELSE /\ pgpass' = [initialized |-> TRUE, filename |-> StoredFilename(path),
                              force |-> force]
                /\ last' = Call("init", args,
                                [exc |-> NoExc, value |-> None, fileRead |-> FALSE,
                                 warns |-> <<>>])
    /\ UNCHANGED <<fexists, fowned, fmode, fcontent, intent, home, handler, driver, calls>>

(***************************************************************************)
(* BaseDbHandler: the password of the database user                        *)
(***************************************************************************)
\* db_host = 'localhost'
DefaultDbHost == <<"l", "o", "c", "a", "l", "h", "o", "s", "t">>

\* db_port = 5432
DefaultDbPort == 5432

\* what psycopg2.connect() raises when no connection can be made
OperationalError == "OperationalError"

BaseDbError == "BaseDbError"

AttributeError == "AttributeError"

\* psycopg2 has created no connection and no cursor yet
NoDriver == [conns |-> <<>>, cursors |-> <<>>]

\* no BaseDbHandler has been constructed yet.  connection and cursor are
\* the attributes of these names: None or the number of a connection or a
\* cursor of the driver.  has_pgpass_file tells whether the attribute
\* _pgpass_file has been assigned, and connect_params is the dict
\* _connect_params, a function of its keys
NoHandler ==
    [initialized |-> FALSE, db_host |-> Some(DefaultDbHost), db_port |-> DefaultDbPort,
     db_schema |-> None, db_user |-> None, db_passwd |-> None,
     connect_params |-> <<>>, pgpass_file |-> None,
     has_pgpass_file |-> FALSE, auto_connect |-> FALSE, simulate |-> FALSE,
     connection |-> None, cursor |-> None]

\* values of the argument connect_params: None, dicts and a str
NoneParams == [type |-> "NoneType", items |-> <<>>]

EmptyParams == [type |-> "dict", items |-> <<>>]

TimeoutParams == [type |-> "dict", items |-> [connect_timeout |-> 3]]

StrParams == [type |-> "str", items |-> <<"x">>]

\* self._connect_params = {}; if connect_params and isinstance(
\* connect_params, dict): self._connect_params = connect_params
StoredConnectParams(v) ==
    IF DOMAIN v.items # {} /\ v.type = "dict" THEN v.items ELSE <<>>

\* connection.closed of the connection number c
ConnClosed(d, c) == d.conns[c].closed

\* cursor.closed of the cursor number k: psycopg2 reports a cursor as closed
\* when it was closed or when its connection is closed
CursorClosed(d, k) == d.cursors[k].closed \/ ConnClosed(d, d.cursors[k].conn)

\* the property connected
connected(h, d) == ~IsNone(h.connection) /\ ~ConnClosed(d, Val(h.connection))

\* the property cursor_opened
cursor_opened(h, d) == ~IsNone(h.cursor) /\ ~CursorClosed(d, Val(h.cursor))

\* the query check_password makes: hostname = self.db_host, port =
\* self.db_port, database = self.db_schema, username = self.db_user
HandlerQuery(h) == Query(h.db_host, Some(h.db_port), h.db_schema, h.db_user)

\* password = pgpass.get_passwd(...); self._db_passwd = password: r is what
\* get_passwd returned or raised, and an exception leaves the method
AfterLookup(h, r) ==
    [exc |-> r.exc, passwd |-> IF r.exc # NoExc THEN h.db_passwd ELSE r.value,
     fileRead |-> r.fileRead, warns |-> r.warns]

\* what the lookup in the .pgpass file gave check_password(): caught tells
\* that PgPassFile() raised a PgPassFileError, which check_password()
\* catches, and r is what get_passwd() returned or raised
Looked(caught, r) ==
    [caught |-> caught, exc |-> IF caught THEN NoExc ELSE r.exc, value |-> r.value,
     fileRead |-> r.fileRead, warns |-> r.warns]

\* check_password() did not get as far as the .pgpass file
NoLookup ==
    Looked(FALSE, [exc |-> NoExc, value |-> None, fileRead |-> FALSE, warns |-> <<>>])

\* check_password() gets as far as PgPassFile(filename = self.pgpass_file)
NeedsLookup(h) == IsNone(h.db_passwd) /\ h.has_pgpass_file

\* pgpass = PgPassFile(filename = self.pgpass_file) and
\* pgpass.get_passwd(...) when no other program changes the file in between
LookupResult(h) ==
    IF ~PathExists(UsedFilename(h.pgpass_file))
    THEN Looked(TRUE, NoLookup)
    ELSE Looked(FALSE, GetPasswdResult(
             [initialized |-> TRUE,
              filename |-> StoredFilename(UsedFilename(h.pgpass_file)),
              force |-> FALSE],
             HandlerQuery(h)))

\* check_password() that goes on to the .pgpass file for an empty password
\* too: if self.db_passwd: return
CheckPasswordResultIfTrue(h, lk) ==
    IF ~IsNone(h.db_passwd) /\ Val(h.db_passwd) # <<>>
    THEN [exc |-> NoExc, passwd |-> h.db_passwd, fileRead |-> FALSE, warns |-> <<>>]
    ELSE IF ~h.has_pgpass_file
    THEN [exc |-> AttributeError, passwd |-> h.db_passwd, fileRead |-> FALSE,
          warns |-> <<>>]
    ELSE IF lk.caught
    THEN [exc |-> NoExc, passwd |-> Some(<<>>), fileRead |-> FALSE,
          warns |-> <<"pgpass">>]
    ELSE AfterLookup(h, lk)

\* check_password() on the handler h, lk being what its lookup in the
\* .pgpass file gave: passwd is self._db_passwd afterwards.
\* PgPassFile(filename = self.pgpass_file) has force at its default, and
\* only its PgPassFileError is caught: reading self.pgpass_file before
\* _pgpass_file was assigned raises AttributeError
CheckPasswordResult(h, lk) ==
    IF ~IsNone(h.db_passwd)
    THEN [exc |-> NoExc, passwd |-> h.db_passwd, fileRead |-> FALSE, warns |-> <<>>]
    ELSE IF ~h.has_pgpass_file
    THEN [exc |-> AttributeError, passwd |-> h.db_passwd, fileRead |-> FALSE,
          warns |-> <<>>]
    ELSE IF lk.caught
    THEN [exc |-> NoExc, passwd |-> Some(<<>>), fileRead |-> FALSE,
          warns |-> <<"pgpass">>]
    ELSE AfterLookup(h, lk)

\* what a method of the handler leaves behind: the exception it raised, the
\* handler and the driver afterwards, and the calls it made on the driver
Outcome(exc, h, d, fileRead, warns, did) ==
    [exc |-> exc, handler |-> h, driver |-> d, fileRead |-> fileRead,
     warns |-> warns, did |-> did]

\* c_params of connect(), a function of its keys: the port is passed when
\* it is not 5432, and the keys of connect_params come last and replace
\* the keys that are there
ConnectParams(h) ==
    h.connect_params
        @@ (IF h.db_port # 0 /\ h.db_port # DefaultDbPort
            THEN [port |-> Some(h.db_port)] ELSE <<>>)
        @@ [host |-> h.db_host, database |-> h.db_schema, user |-> h.db_user,
            password |-> h.db_passwd]

\* connect() after its check_password() gave r: psycopg2.connect(**c_params)
\* succeeds when ok, and with simulate the session is set to readonly
AfterCheckPassword(h, d, ok, r) ==
    LET h1 == [h EXCEPT !.db_passwd = r.passwd]
    IN  IF r.exc # NoExc
        THEN Outcome(r.exc, h1, d, r.fileRead, r.warns, <<>>)
        ELSE IF ~ok
        THEN Outcome(OperationalError, h1, d, r.fileRead, r.warns, <<"connect">>)
        ELSE Outcome(NoExc,
                     [h1 EXCEPT !.connection = Some(Len(d.conns) + 1)],
                     [d EXCEPT !.conns = Append(@, [closed |-> FALSE,
                                                    readonly |-> h.simulate,
                                                    params |-> ConnectParams(h1)])],
                     r.fileRead, r.warns,
                     IF h.simulate THEN <<"connect", "set_session">>
                     ELSE <<"connect">>)

\* self.cursor = self.connection.cursor(), after close_cursor() gave c
AfterCloseCursor(c) ==
    Outcome(NoExc,
            [c.handler EXCEPT !.cursor = Some(Len(c.driver.cursors) + 1)],
            [c.driver EXCEPT !.cursors = Append(@, [conn |-> Val(c.handler.connection),
                                                    closed |-> FALSE])],
            FALSE, <<>>, c.did \o <<"cursor">>)

\* c when it raised, and else c with a cursor opened on its connection
IfConnectedOpenCursor(c) == IF c.exc # NoExc THEN c ELSE AfterCloseCursor(c)

\* connect() that opens a cursor on the connection it made
ConnectResultOpeningCursor(h, d, ok, lk) ==
    IF connected(h, d)
    THEN Outcome(BaseDbError, h, d, FALSE, <<>>, <<>>)
    ELSE IfConnectedOpenCursor(AfterCheckPassword(h, d, ok,
                                                  CheckPasswordResult(h, lk)))

\* connect() that replaces an open connection instead of raising
ConnectResultReplacing(h, d, ok, lk) ==
    AfterCheckPassword(h, d, ok, CheckPasswordResult(h, lk))

\* connect(), lk being what the lookup of its check_password() gave
ConnectResult(h, d, ok, lk) ==
    IF connected(h, d)
    THEN Outcome(BaseDbError, h, d, FALSE, <<>>, <<>>)
    ELSE AfterCheckPassword(h, d, ok, CheckPasswordResult(h, lk))

\* the connections and the cursors the driver is asked for in one run
MaxConns == 2

MaxCursors == 2

\* close_cursor() that only forgets the cursor
CloseCursorResultForgetting(h, d) ==
    Outcome(NoExc, [h EXCEPT !.cursor = None], d, FALSE, <<>>, <<>>)

\* close_cursor()
CloseCursorResult(h, d) ==
    IF ~connected(h, d)
    THEN Outcome(NoExc, [h EXCEPT !.cursor = None], d, FALSE, <<>>, <<>>)
    ELSE IF IsNone(h.cursor)
    THEN Outcome(NoExc, h, d, FALSE, <<>>, <<>>)
    ELSE IF ~CursorClosed(d, Val(h.cursor))
    THEN Outcome(NoExc, [h EXCEPT !.cursor = None],
                 [d EXCEPT !.cursors[Val(h.cursor)].closed = TRUE],
                 FALSE, <<>>, <<"cursor.close">>)
    ELSE Outcome(NoExc, [h EXCEPT !.cursor = None], d, FALSE, <<>>, <<>>)

\* open_cursor() without its test of connected: the cursor of whatever
\* self.connection is, and AttributeError when that is None
OpenCursorResultUnchecked(h, d) ==
    IF IsNone(h.connection)
    THEN Outcome(AttributeError, h, d, FALSE, <<>>, <<>>)
    ELSE IF ~IsNone(h.cursor)
    THEN AfterCloseCursor(CloseCursorResult(h, d))
    ELSE AfterCloseCursor(Outcome(NoExc, h, d, FALSE, <<>>, <<>>))

\* open_cursor()
OpenCursorResult(h, d) ==
    IF ~connected(h, d)
    THEN Outcome(BaseDbError, h, d, FALSE, <<>>, <<>>)
    ELSE IF ~IsNone(h.cursor)
    THEN AfterCloseCursor(CloseCursorResult(h, d))
    ELSE AfterCloseCursor(Outcome(NoExc, h, d, FALSE, <<>>, <<>>))

\* the second half of close(), after close_cursor() gave c
AfterCloseCursorClose(c) ==
    IF IsNone(c.handler.connection)
    THEN c
    ELSE Outcome(NoExc, [c.handler EXCEPT !.connection = None],
                 IF ~ConnClosed(c.driver, Val(c.handler.connection))
                 THEN [c.driver EXCEPT !.conns[Val(c.handler.connection)].closed = TRUE]
                 ELSE c.driver,
                 FALSE, <<>>,
                 IF ~ConnClosed(c.driver, Val(c.handler.connection))
                 THEN c.did \o <<"connection.close">>
                 ELSE c.did)

\* close() that closes the connection first and the cursor after it
CloseResultConnectionFirst(h, d) ==
    CloseCursorResult(
        AfterCloseCursorClose(Outcome(NoExc, h, d, FALSE, <<>>, <<>>)).handler,
        AfterCloseCursorClose(Outcome(NoExc, h, d, FALSE, <<>>, <<>>)).driver)

\* close() that forgets the connection without closing anything
CloseResultForgetting(h, d) ==
    Outcome(NoExc, [h EXCEPT !.connection = None], d, FALSE, <<>>, <<>>)

\* close()
CloseResult(h, d) == AfterCloseCursorClose(CloseCursorResult(h, d))

\* BaseDbHandler.__init__: connect() is called, when auto_connect is set,
\* on the object as it is at that line, that is before _pgpass_file is
\* assigned; built is the object when __init__ returns
ConstructedHandler(db_host, db_port, db_schema, db_user, db_passwd, connect_params, pgpass_file, auto_connect, simulate) ==
    [initialized |-> FALSE, db_host |-> db_host, db_port |-> db_port,
     db_schema |-> db_schema, db_user |-> db_user, db_passwd |-> db_passwd,
     connect_params |-> StoredConnectParams(connect_params),
     pgpass_file |-> None, has_pgpass_file |-> FALSE,
     auto_connect |-> auto_connect, simulate |-> simulate,
     connection |-> None, cursor |-> None]

\* the rest of __init__ after the connect() of auto_connect gave c: an
\* exception leaves the constructor and the caller gets no object
AfterAutoConnect(c, pgpass_file) ==
    IF c.exc # NoExc
    THEN c
    ELSE Outcome(NoExc,
                 [c.handler EXCEPT !.pgpass_file = pgpass_file,
                                   !.has_pgpass_file = TRUE,
                                   !.initialized = TRUE],
                 c.driver, c.fileRead, c.warns, c.did)

\* BaseDbHandler(...): h is the object before the lines of auto_connect.
\* The check_password() of its connect() ends before PgPassFile() is
\* called: a password was given, or _pgpass_file is not assigned yet
NewHandlerResult(h, pgpass_file, d, ok) ==
    IF h.auto_connect
    THEN AfterAutoConnect(ConnectResult(h, d, ok, NoLookup), pgpass_file)
    ELSE AfterAutoConnect(Outcome(NoExc, h, d, FALSE, <<>>, <<>>), pgpass_file)

\* handler = BaseDbHandler(...) gave r: when the constructor returned, the
\* name is bound to the new object and the object old it held is dropped,
\* and __del__ calls close() on it
Rebound(old, r) ==
    IF r.exc # NoExc \/ ~old.initialized
    THEN r
    ELSE Outcome(r.exc, r.handler, CloseResult(old, r.driver).driver, r.fileRead,
                 r.warns, r.did \o CloseResult(old, r.driver).did)

\* the call record of a method of the handler: args keeps the handler as it
\* was (for the constructor: the object it was asked for), value the calls
\* made on the driver
HandlerCall(op, h, r) ==
    Call(op, h, [exc |-> r.exc, value |-> r.did, fileRead |-> r.fileRead,
                 warns |-> r.warns])

\* no call of the process is under way
HandlerIdle == \A t \in DOMAIN calls.threads : calls.threads[t].pc = "idle"

\* handler = BaseDbHandler(db_host, db_port, db_schema, db_user, db_passwd,
\* connect_params, pgpass_file = pgpass_file, auto_connect = auto_connect,
\* simulate = simulate); ok tells whether psycopg2.connect() would succeed
NewHandler(db_host, db_port, db_schema, db_user, db_passwd, connect_params, pgpass_file, auto_connect, simulate, ok) ==
    /\ HandlerIdle
    /\ (ok /\ auto_connect) => Len(driver.conns) < MaxConns
    /\ \E r \in {Rebound(handler,
                    NewHandlerResult(
                        ConstructedHandler(db_host, db_port, db_schema, db_user,
                                           db_passwd, connect_params, pgpass_file,
                                           auto_connect, simulate),
                        pgpass_file, driver, ok))} :
          /\ handler' = IF r.exc # NoExc THEN handler ELSE r.handler
          /\ driver' = r.driver
          /\ last' = HandlerCall("new_handler",
                                 [ConstructedHandler(db_host, db_port, db_schema,
                                                     db_user, db_passwd,
                                                     connect_params, pgpass_file,
                                                     auto_connect, simulate)
                                      EXCEPT !.pgpass_file = pgpass_file,
                                             !.has_pgpass_file = TRUE], r)
    /\ UNCHANGED <<fexists, fowned, fmode, fcontent, pgpass, intent, home, calls>>

\* del handler: the object is dropped and __del__ calls close() on it
DelHandler ==
    /\ handler.initialized
    /\ HandlerIdle
    /\ \E r \in {CloseResult(handler, driver)} :
          /\ handler' = NoHandler
          /\ driver' = r.driver
          /\ last' = HandlerCall("del", handler, r)
    /\ UNCHANGED <<fexists, fowned, fmode, fcontent, pgpass, intent, home, calls>>

\* a method of the handler with the outcome r
HandlerStep(op, r) ==
    /\ handler' = r.handler
    /\ driver' = r.driver
    /\ last' = HandlerCall(op, handler, r)
    /\ UNCHANGED <<fexists, fowned, fmode, fcontent, pgpass, intent, home>>

\* handler.auto_connect = value: self._auto_connect = bool(value), value
\* being given by its truth
SetAutoConnect(value) ==
    /\ handler.initialized
    /\ HandlerIdle
    /\ HandlerStep("set_auto_connect",
                   Outcome(NoExc, [handler EXCEPT !.auto_connect = value], driver,
                           FALSE, <<>>, <<>>))
    /\ UNCHANGED calls

\* handler.connect_params[key] = value: the property hands out the dict
\* _connect_params itself
SetConnectParam(key, value) ==
    /\ handler.initialized
    /\ HandlerIdle
    /\ HandlerStep("set_connect_param",
                   Outcome(NoExc,
                           [handler EXCEPT !.connect_params = (key :> value) @@ @],
                           driver, FALSE, <<>>, <<>>))
    /\ UNCHANGED calls

\* the caller enters the lookup of check_password(), called by op, at
\* PgPassFile(filename = self.pgpass_file)
NewLookup(op, q) == [IdleCall EXCEPT !.pc = "init", !.op = op, !.query = q]

\* what the lookup of the call c gave
LookupOf(c) == Looked(c.pc = "caught", c)

\* handler.check_password() up to its first call that looks at the file
\* system: it returns at once when a password is there, and else goes on
\* to PgPassFile(); the call record keeps the handler as it was
CheckPassword ==
    /\ handler.initialized
    /\ HandlerIdle
    /\ calls.threads # <<>>
    /\ IF NeedsLookup(handler)
       THEN /\ calls' = [calls EXCEPT !.threads[1] =
                            NewLookup("check_password", HandlerQuery(handler))]
            /\ last' = NoCall
            /\ UNCHANGED handler
       ELSE /\ \E r \in {CheckPasswordResult(handler, NoLookup)} :
                  /\ handler' = [handler EXCEPT !.db_passwd = r.passwd]
                  /\ last' = Call("check_password", handler,
                                  [exc |-> r.exc, value |-> None,
                                   fileRead |-> r.fileRead, warns |-> r.warns])
            /\ UNCHANGED calls
    /\ UNCHANGED <<fexists, fowned, fmode, fcontent, pgpass, intent, home, driver>>

\* pgpass = PgPassFile(filename = self.pgpass_file) in check_password():
\* the constructor looks whether the file exists and resolves its path, and
\* its PgPassFileNotExistsError is caught
LookupInitStep ==
    /\ calls.threads # <<>>
    /\ calls.threads[1].pc = "init"
    /\ calls' = IF PathExists(UsedFilename(handler.pgpass_file))
                THEN [objs |-> <<[initialized |-> TRUE,
                                  filename |-> StoredFilename(
                                                   UsedFilename(handler.pgpass_file)),
                                  force |-> FALSE]>>,
                      threads |-> [calls.threads EXCEPT ![1].pc = "exists"]]
                ELSE [calls EXCEPT !.threads[1].pc = "caught"]
    /\ UNCHANGED <<fexists, fowned, fmode, fcontent, pgpass, last, intent, home,
                   handler, driver>>

\* the call of the handler whose lookup is over
LookupDone(op) ==
    /\ calls.threads # <<>>
    /\ calls.threads[1].op = op
    /\ calls.threads[1].pc \in {"done", "caught"}

\* the local variable pgpass of check_password() is gone, and the caller is
\* free for the next call
LookupLeft(c) == [objs |-> <<>>, threads |-> [c.threads EXCEPT ![1] = IdleCall]]

\* check_password() after its lookup: self._db_passwd = password, or the
\* exception of get_passwd() leaves the method
CheckPasswordReturn ==
    /\ LookupDone("check_password")
    /\ \E r \in {CheckPasswordResult(handler, LookupOf(calls.threads[1]))} :
          /\ handler' = [handler EXCEPT !.db_passwd = r.passwd]
          /\ last' = [Call("check_password", handler,
                           [exc |-> r.exc, value |-> None, fileRead |-> r.fileRead,
                            warns |-> r.warns])
                         EXCEPT !.changed = calls.threads[1].changed]
    /\ calls' = LookupLeft(calls)
    /\ UNCHANGED <<fexists, fowned, fmode, fcontent, pgpass, intent, home, driver>>

\* handler.connect() up to the first call of its check_password() that
\* looks at the file system; ok tells whether psycopg2.connect() succeeds
Connect(ok) ==
    /\ handler.initialized
    /\ HandlerIdle
    /\ calls.threads # <<>>
    /\ IF ~connected(handler, driver) /\ NeedsLookup(handler)
       THEN /\ calls' = [calls EXCEPT !.threads[1] =
                            NewLookup("connect", HandlerQuery(handler))]
            /\ last' = NoCall
            /\ UNCHANGED <<fexists, fowned, fmode, fcontent, pgpass, intent, home,
                           handler, driver>>
       ELSE /\ (ok /\ ~connected(handler, driver)) => Len(driver.conns) < MaxConns
            /\ \E r \in {ConnectResult(handler, driver, ok, NoLookup)} :
                  HandlerStep("connect", r)
            /\ UNCHANGED calls

\* connect() after the lookup of its check_password(); ok tells whether
\* psycopg2.connect() succeeds
ConnectReturn(ok) ==
    /\ LookupDone("connect")
    /\ ok => Len(driver.conns) < MaxConns
    /\ \E r \in {ConnectResult(handler, driver, ok, LookupOf(calls.threads[1]))} :
          /\ handler' = r.handler
          /\ driver' = r.driver
          /\ last' = [HandlerCall("connect", handler, r)
                         EXCEPT !.changed = calls.threads[1].changed]
    /\ calls' = LookupLeft(calls)
    /\ UNCHANGED <<fexists, fowned, fmode, fcontent, pgpass, intent, home>>

\* handler.open_cursor()
OpenCursor ==
    /\ handler.initialized
    /\ HandlerIdle
    /\ connected(handler, driver) => Len(driver.cursors) < MaxCursors
    /\ \E r \in {OpenCursorResult(handler, driver)} : HandlerStep("open_cursor", r)
    /\ UNCHANGED calls

\* handler.close_cursor()
CloseCursor ==
    /\ handler.initialized
    /\ HandlerIdle
    /\ \E r \in {CloseCursorResult(handler, driver)} : HandlerStep("close_cursor", r)
    /\ UNCHANGED calls

\* handler.close()
Close ==
    /\ handler.initialized
    /\ HandlerIdle
    /\ \E r \in {CloseResult(handler, driver)} : HandlerStep("close", r)
    /\ UNCHANGED calls

(***************************************************************************)
(* Concurrent callers: entries() and get_passwd() one step at a time       *)
(***************************************************************************)
Callers == {1, 2}

\* one caller, working on pgpass
OneCaller == [objs |-> <<>>, threads |-> <<IdleCall>>]

\* the object number o of the callers; a single caller works on pgpass
ObjectAt(c, o) == IF c.objs = <<>> THEN pgpass ELSE c.objs[o]

\* the caller t calls op on the object number o
StartCall(t, o, op, q) ==
    /\ calls.threads # <<>>
    /\ calls.threads[t].pc = "idle"
    /\ ObjectAt(calls, o).initialized
    /\ calls' = [calls EXCEPT !.threads[t] = NewCall(o, op, q)]
    /\ last' = NoCall
    /\ UNCHANGED <<fexists, fowned, fmode, fcontent, pgpass, intent, home,
                   handler, driver>>

\* os.path.exists(self.filename)
ExistsStep(t) ==
    /\ calls.threads # <<>>
    /\ calls.threads[t].pc = "exists"
    /\ calls' = [calls EXCEPT !.threads[t] =
                    ExistsStage(@, ObjectAt(calls, calls.threads[t].obj))]
    /\ UNCHANGED <<fexists, fowned, fmode, fcontent, pgpass, last, intent, home,
                   handler, driver>>

\* os.access(self.filename, os.R_OK)
AccessStep(t) ==
    /\ calls.threads # <<>>
    /\ calls.threads[t].pc = "access"
    /\ calls' = [calls EXCEPT !.threads[t] =
                    AccessStage(@, ObjectAt(calls, calls.threads[t].obj))]
    /\ UNCHANGED <<fexists, fowned, fmode, fcontent, pgpass, last, intent, home,
                   handler, driver>>

\* os.stat() that takes the permissions of group and others away from a
\* file that is too open
StatStepAndRestrict(t) ==
    /\ calls.threads # <<>>
    /\ calls.threads[t].pc = "stat"
    /\ calls' = [calls EXCEPT !.threads[t] =
                    StatStage(@, ObjectAt(calls, calls.threads[t].obj))]
    /\ fmode' = IF fexists /\ TooOpen(fmode) THEN DefaultMode ELSE fmode
    /\ UNCHANGED <<fexists, fowned, fcontent, pgpass, last, intent, home,
                   handler, driver>>

\* os.stat(self.filename) and the permission gate
StatStep(t) ==
    /\ calls.threads # <<>>
    /\ calls.threads[t].pc = "stat"
    /\ calls' = [calls EXCEPT !.threads[t] =
                    StatStage(@, ObjectAt(calls, calls.threads[t].obj))]
    /\ UNCHANGED <<fexists, fowned, fmode, fcontent, pgpass, last, intent, home,
                   handler, driver>>

\* self.read_file(self.filename)
ReadFileStep(t) ==
    /\ calls.threads # <<>>
    /\ calls.threads[t].pc = "read_file"
    /\ calls' = [calls EXCEPT !.threads[t] =
                    ReadFileStage(@, ObjectAt(calls, calls.threads[t].obj))]
    /\ UNCHANGED <<fexists, fowned, fmode, fcontent, pgpass, last, intent, home,
                   handler, driver>>

\* the content kept in a place all callers share: a caller parses what the
\* other caller has read, when it has read
ContentSeenShared(c, t) ==
    IF Len(c.threads) = 2 /\ c.threads[3 - t].pc \in {"parse", "find"}
    THEN c.threads[3 - t].content
    ELSE c.threads[t].content

\* the content the caller t parses: its local variable content
ContentSeen(c, t) == c.threads[t].content

\* the call after the loop of entries(): entries() returns the list p,
\* get_passwd() goes on with it
Parsed(c, p) ==
    [c EXCEPT !.pc = IF p.exc # NoExc \/ c.op = "entries" THEN "done" ELSE "find",
              !.exc = p.exc,
              !.entries = p.value,
              !.value = IF c.op = "entries" THEN p.value ELSE None,
              !.warns = @ \o p.warns]

\* entries() keeping the list it parsed first and returning it from then on
ParseStepKept(t) ==
    /\ calls.threads # <<>>
    /\ calls.threads[t].pc = "parse"
    /\ \E p \in {ParseContent(ContentSeen(calls, t))} :
          IF "kept" \in DOMAIN pgpass
          THEN /\ calls' = [calls EXCEPT !.threads[t] = Parsed(@, pgpass.kept)]
               /\ UNCHANGED pgpass
          ELSE /\ calls' = [calls EXCEPT !.threads[t] = Parsed(@, p)]
               /\ pgpass' = IF p.exc # NoExc \/ calls.objs # <<>> THEN pgpass
                             ELSE [initialized |-> TRUE, filename |-> pgpass.filename,
                                   force |-> pgpass.force, kept |-> p]
    /\ UNCHANGED <<fexists, fowned, fmode, fcontent, last, intent, home,
                   handler, driver>>

\* the loop of entries() over content.splitlines()
ParseStep(t) ==
    /\ calls.threads # <<>>
    /\ calls.threads[t].pc = "parse"
    /\ \E p \in {ParseContent(ContentSeen(calls, t))} :
          calls' = [calls EXCEPT !.threads[t] = Parsed(@, p)]
    /\ UNCHANGED <<fexists, fowned, fmode, fcontent, pgpass, last, intent, home,
                   handler, driver>>

\* the loop of get_passwd() over the entries
FindStep(t) ==
    /\ calls.threads # <<>>
    /\ calls.threads[t].pc = "find"
    /\ \E f \in {FindPasswd(calls.threads[t].entries, calls.threads[t].query)} :
          calls' = [calls EXCEPT !.threads[t] =
                       [@ EXCEPT !.pc = "done", !.exc = f.exc, !.value = f.value]]
    /\ UNCHANGED <<fexists, fowned, fmode, fcontent, pgpass, last, intent, home,
                   handler, driver>>

\* the call returns or raises: the caller t has its result and is free for
\* the next call
ReturnStep(t) ==
    /\ calls.threads # <<>>
    /\ calls.threads[t].pc = "done"
    /\ calls.threads[t].op \in {"read", "entries", "get_passwd"}
    /\ last' = [Call(calls.threads[t].op, calls.threads[t].query, calls.threads[t])
                   EXCEPT !.changed = calls.threads[t].changed]
    /\ calls' = [calls EXCEPT !.threads[t] = IdleCall]
    /\ UNCHANGED <<fexists, fowned, fmode, fcontent, pgpass, intent, home,
                   handler, driver>>

\* entry.match(hostname, port, database, username) on the i-th entry of the
\* list that entries() has just returned
MatchReturned(q) ==
    /\ last.op = "entries"
    /\ last.exc = NoExc
    /\ \E i \in 1..Len(last.value) :
          LET m == Match(last.value[i], q)
          IN  last' = Call("match", [entry |-> last.value[i], query |-> q],
                           [exc |-> m.exc, value |-> m.value, fileRead |-> FALSE,
                            warns |-> <<>>])
    /\ UNCHANGED <<fexists, fowned, fmode, fcontent, pgpass, intent, home, handler,
                   driver, calls>>

\* the calls in progress after another program changed the file
Disturbed(c) ==
    [c EXCEPT !.threads =
        [t \in DOMAIN c.threads |->
            IF c.threads[t].pc = "idle" THEN c.threads[t]
            ELSE [c.threads[t] EXCEPT !.changed = TRUE]]]

(***************************************************************************)
(* The environment: what other programs do to the file                     *)
(***************************************************************************)
\* the file is written; a missing file is created by the process, as
\* mkstemp does: its own, with mode 0600
WriteFile(c) ==
    /\ fcontent' = c
    /\ fexists' = TRUE
    /\ fmode' = IF fexists THEN fmode ELSE DefaultMode
    /\ fowned' = IF fexists THEN fowned ELSE TRUE
    /\ last' = NoCall
    /\ calls' = IF fexists /\ fcontent = c THEN calls ELSE Disturbed(calls)
    /\ UNCHANGED <<pgpass, intent, home, handler, driver>>

\* another user creates the missing file: its own, with mode 0600
CreateByOther(c) ==
    /\ ~fexists
    /\ fcontent' = c
    /\ fexists' = TRUE
    /\ fmode' = DefaultMode
    /\ fowned' = FALSE
    /\ last' = NoCall
    /\ calls' = Disturbed(calls)
    /\ UNCHANGED <<pgpass, intent, home, handler, driver>>

\* os.chmod(filename, m)
Chmod(m) ==
    /\ fexists
    /\ fmode' = m
    /\ last' = NoCall
    /\ calls' = IF fmode = m THEN calls ELSE Disturbed(calls)
    /\ UNCHANGED <<fexists, fowned, fcontent, pgpass, intent, home, handler, driver>>

\* os.remove(filename)
Remove ==
    /\ fexists
    /\ fexists' = FALSE
    /\ fcontent' = <<>>
    /\ fmode' = DefaultMode
    /\ fowned' = TRUE
    /\ last' = NoCall
    /\ calls' = Disturbed(calls)
    /\ UNCHANGED <<pgpass, intent, home, handler, driver>>

\* os.chown: the file passes to another user and group (own FALSE), or to
\* the user of the process
Chown(own) ==
    /\ fexists
    /\ fowned' = own
    /\ last' = NoCall
    /\ calls' = IF fowned = own THEN calls ELSE Disturbed(calls)
    /\ UNCHANGED <<fexists, fmode, fcontent, pgpass, intent, home, handler, driver>>

(***************************************************************************)
(* Inputs: files, lines and queries                                        *)
(***************************************************************************)
\* all sequences over S of length at most n
SeqsUpTo(n, S) == UNION {[1..k -> S] : k \in 0..n}

RECURSIVE JoinWith(_, _)
JoinWith(parts, sep) ==
    IF parts = <<>> THEN <<>>
    ELSE IF Len(parts) = 1 THEN parts[1]
    ELSE parts[1] \o <<sep>> \o JoinWith(Tail(parts), sep)

\* a line of the file: its raw fields joined by colons
Line(fields) == JoinWith(fields, COLON)

\* a file: its lines, each ended by a newline
RECURSIVE TextOf(_)
TextOf(lines) ==
    IF lines = <<>> THEN <<>> ELSE Head(lines) \o <<NL>> \o TextOf(Tail(lines))

Star == <<STAR>>

CommentLine == <<"#", " ", "c">>

\* the files of the main specification, after test_read_pgpass,
\* test_parse_entries1 and test_parse_entries2
FileBla == TextOf(<< <<"b", "l", "a">> >>)

FileTwo ==
    TextOf(<< Line(<< <<"a", "p">>, <<"5", "4">>, Star, <<"g", "f">>, <<"p", "1">> >>),
              CommentLine,
              Line(<< Star, <<"5", "4">>, <<"v", "d">>, Star, <<"p", "2">> >>),
              <<>> >>)

FileCorrupt ==
    TextOf(<< Line(<< <<"a", "p">>, <<"5", "4">>, <<>> >>),
              CommentLine,
              Line(<< <<"a", "p">>, <<"5", "4", "t", "t">>, Star, <<"g", "f">>, <<"p", "1">> >>),
              <<>>,
              Line(<< <<"A", "p">>, Star, Star, Star, <<"p", "3">> >>) >>)

FileContents == {<<>>, FileBla, FileTwo, FileCorrupt}

\* 0600, 0640, 0604, 0644, 0400, 0000
FileModes == {384, 416, 388, 420, 256, 0}

\* the queries of the main specification; None is what a caller passes
\* when it has no value
Queries ==
    {Query(h, p, d, u) :
        h \in {Some(<<"a", "p">>), Some(<<"l", "o">>), None},
        p \in {Some(54), None},
        d \in {Some(<<"v", "d">>), None},
        u \in {Some(<<"g", "f">>), None}}

(***************************************************************************)
(* The main specification: one PgPassFile and a changing file              *)
(***************************************************************************)
Init ==
    /\ fexists = TRUE
    /\ fowned = TRUE
    /\ fmode = DefaultMode
    /\ fcontent = FileBla
    /\ pgpass = NoObject
    /\ last = NoCall
    /\ intent = None
    /\ home = Some(HomeDir)
    /\ handler = NoHandler
    /\ driver = NoDriver
    /\ calls = OneCaller

Next ==
    \/ \E path \in Paths, force \in BOOLEAN : Construct(Some(path), force)
    \/ \E op \in {"read", "entries"} : StartCall(1, 1, op, None)
    \/ \E q \in Queries : StartCall(1, 1, "get_passwd", q)
    \/ ExistsStep(1)
    \/ AccessStep(1)
    \/ StatStep(1)
    \/ ReadFileStep(1)
    \/ ParseStep(1)
    \/ FindStep(1)
    \/ ReturnStep(1)
    \/ \E q \in Queries : MatchReturned(q)
    \/ \E c \in FileContents : WriteFile(c)
    \/ \E m \in FileModes : Chmod(m)
    \/ Remove
    \/ \E c \in {FileBla, FileTwo} : CreateByOther(c)
    \/ \E own \in BOOLEAN : Chown(own)

Spec == Init /\ [][Next]_vars

(***************************************************************************)
(* The matcher on its own: every file of at most MaxEntries lines of       *)
(* MatchLines, every query of MatchQueries, one call per file              *)
(***************************************************************************)
MaxEntries == 2

MatchLines ==
    { Line(<< <<"a">>, <<"5">>, <<"d">>, <<"u">>, <<"1">> >>),
      Line(<< <<"a">>, <<"5">>, Star, <<"u">>, <<"2">> >>),
      Line(<< <<"B">>, Star, Star, Star, <<"3">> >>),
      Line(<< Star, <<"5">>, Star, Star, <<"4">> >>),
      Line(<< Star, Star, <<"D">>, Star, <<"5">> >>),
      Line(<< Star, Star, Star, <<"U">>, <<"6">> >>),
      Line(<< Star, Star, Star, Star, <<"7">> >>),
      Line(<< <<"a">>, <<"6">>, Star, Star, <<"8">> >>) }

MatchFiles == {TextOf(ls) : ls \in SeqsUpTo(MaxEntries, MatchLines)}

MatchQueries ==
    {Query(Some(h), Some(p), Some(d), Some(u)) :
        h \in {<<"a">>, <<"A">>, <<"b">>, <<"c">>},
        p \in {5, 6, 7},
        d \in {<<"d">>, <<"e">>},
        u \in {<<"u">>, <<"v">>}}

\* a PgPassFile constructed on the existing, private file
OpenedObject == [initialized |-> TRUE, filename |-> FilePath, force |-> FALSE]

\* no call has been made on the file yet
Fresh ==
    /\ last.op = "none"
    /\ \A t \in DOMAIN calls.threads : calls.threads[t].pc = "idle"

InitFile(files) ==
    /\ fexists = TRUE
    /\ fowned = TRUE
    /\ fmode = DefaultMode
    /\ fcontent \in files
    /\ pgpass = OpenedObject
    /\ last = NoCall
    /\ intent = None
    /\ home = Some(HomeDir)
    /\ handler = NoHandler
    /\ driver = NoDriver
    /\ calls = OneCaller

InitMatch == InitFile(MatchFiles)

NextMatch ==
    \/ Fresh /\ \E q \in MatchQueries : StartCall(1, 1, "get_passwd", q)
    \/ Fresh /\ StartCall(1, 1, "entries", None)
    \/ ExistsStep(1)
    \/ AccessStep(1)
    \/ StatStep(1)
    \/ ReadFileStep(1)
    \/ ParseStep(1)
    \/ FindStep(1)
    \/ ReturnStep(1)
    \/ \E q \in MatchQueries : MatchReturned(q)

SpecMatch == InitMatch /\ [][NextMatch]_vars

(***************************************************************************)
(* The parser on its own: every one-line file of at most MaxLineLen        *)
(* characters of ParseAlphabet, and every file of at most MaxLines lines   *)
(* of ParsePool                                                            *)
(***************************************************************************)
MaxLineLen == 7

MaxLines == 2

ParseAlphabet == {COLON, BS, STAR, "5"}

\* local\host:5432:*:glass\:fish:ov\:La\:nel3\:\:oh
ExampleLine ==
    <<"l", "o", "c", "a", "l", BS, "h", "o", "s", "t", COLON,
      "5", "4", "3", "2", COLON, STAR, COLON,
      "g", "l", "a", "s", "s", BS, COLON, "f", "i", "s", "h", COLON,
      "o", "v", BS, COLON, "L", "a", BS, COLON, "n", "e", "l", "3",
      BS, COLON, BS, COLON, "o", "h">>

ParsePool ==
    { Line(<< <<"a">>, <<"5">>, <<>> >>),
      Line(<< <<"a">>, <<"5", "t">>, Star, <<"u">>, <<"p">> >>),
      Line(<< <<"a">>, <<"5">>, Star, <<"u">>, <<"p">> >>),
      Line(<< <<"a">>, <<"0">>, <<"d">>, <<"u">>, <<"p">> >>),
      Line(<< <<"a">>, <<"-", "5">>, <<"d">>, <<"u">>, <<"p">> >>),
      Line(<< <<"a">>, <<"7", "0", "0", "0", "0">>, <<"d">>, <<"u">>, <<"p">> >>),
      Line(<< <<"a">>, <<>>, <<"d">>, <<"u">>, <<"p">> >>),
      Line(<< <<"a">>, <<" ", "5", " ">>, <<"d">>, <<"u">>, <<"p">> >>),
      Line(<< <<VT, "a">>, <<"-", " ", "5", VT>>, <<"d">>, <<"u">>, <<"p", VT>> >>),
      Line(<< <<" ", "a">>, <<"5">>, <<"d">>, <<"u">>, <<"p", " ">> >>),
      Line(<< <<"a">>, <<"5">>, <<"d">>, <<"u">>, <<"p">>, <<"q">>, <<"r">> >>),
      Line(<< <<"a", BS, BS>>, <<"5">>, <<"d">>, <<"u">>, <<"p">> >>),
      Line(<< <<"a", BS, COLON, "b">>, <<"5">>, <<"d", BS, BS, "e">>, <<"u">>, <<"p", BS, "q">> >>),
      Line(<< <<"a">>, <<"5">>, <<"d">>, <<"u">>, <<"p", BS, BS, COLON, "q">> >>),
      Line(<< Star, Star, Star, Star, Star >>),
      Line(<< <<>>, <<"5">>, <<>>, <<>>, <<>> >>),
      Line(<< <<>>, <<"5">>, <<>>, <<>>, <<"P", "w", " ">> >>),
      <<"b", "l", "a">>,
      CommentLine,
      <<" ", HASH>> \o Line(<< <<"a">>, <<"5">>, <<"d">>, <<"u">>, <<"p">> >>),
      <<" ", " ">>,
      <<VT>>,
      <<>> }

ParseFiles ==
    {TextOf(<<l>>) : l \in SeqsUpTo(MaxLineLen, ParseAlphabet)}
    \cup {TextOf(ls) : ls \in SeqsUpTo(MaxLines, ParsePool)}
    \cup {TextOf(<<ExampleLine>>)}

\* a connection to the server named by the empty string, as the lines of
\* ParseAlphabet with empty fields have it
ParseQueries == {Query(Some(<<>>), Some(5), Some(<<>>), Some(<<>>))}

InitParse == InitFile(ParseFiles)

NextParse ==
    \/ Fresh /\ \E op \in {"read", "entries"} : StartCall(1, 1, op, None)
    \/ Fresh /\ \E q \in ParseQueries : StartCall(1, 1, "get_passwd", q)
    \/ ExistsStep(1)
    \/ AccessStep(1)
    \/ StatStep(1)
    \/ ReadFileStep(1)
    \/ ParseStep(1)
    \/ FindStep(1)
    \/ ReturnStep(1)

SpecParse == InitParse /\ [][NextParse]_vars

(***************************************************************************)
(* Written and read back: a file of one line made from the values the      *)
(* author means, each field escaped as the format prescribes               *)
(***************************************************************************)
MaxValueLen == 2

MaxShortLen == 1

EscapeAlphabet == {"a", BS, COLON}

\* a literal backslash is written \\ and a literal colon \:
RECURSIVE EscapeField(_)
EscapeField(v) ==
    IF v = <<>> THEN <<>>
    ELSE (IF Head(v) = BS THEN <<BS, BS>>
          ELSE IF Head(v) = COLON THEN <<BS, COLON>>
          ELSE <<Head(v)>>) \o EscapeField(Tail(v))

IntentPort == <<"5", "4", "3", "2">>

EscapedLine(i) ==
    Line(<< EscapeField(i.hostname), IntentPort, EscapeField(i.database),
            EscapeField(i.username), EscapeField(i.password) >>)

Intents ==
    [hostname : SeqsUpTo(MaxValueLen, EscapeAlphabet),
     database : SeqsUpTo(MaxShortLen, EscapeAlphabet),
     username : SeqsUpTo(MaxShortLen, EscapeAlphabet),
     password : SeqsUpTo(MaxValueLen, EscapeAlphabet)]

InitEscape ==
    /\ fexists = TRUE
    /\ fowned = TRUE
    /\ fmode = DefaultMode
    /\ \E i \in Intents :
          /\ intent = Some(i)
          /\ fcontent = TextOf(<<EscapedLine(i)>>)
    /\ pgpass = OpenedObject
    /\ last = NoCall
    /\ home = Some(HomeDir)
    /\ handler = NoHandler
    /\ driver = NoDriver
    /\ calls = OneCaller

NextEscape ==
    \/ Fresh /\ \E op \in {"read", "entries"} : StartCall(1, 1, op, None)
    \/ ExistsStep(1)
    \/ AccessStep(1)
    \/ StatStep(1)
    \/ ReadFileStep(1)
    \/ ParseStep(1)
    \/ ReturnStep(1)

SpecEscape == InitEscape /\ [][NextEscape]_vars

(***************************************************************************)
(* The default file: PgPassFile constructed with and without a filename,   *)
(* for every value of HOME in HomeValues                                   *)
(***************************************************************************)
\* HOME unset, the directory of the file (plain, with a slash at its end, and
\* with two slashes at its beginning), another directory, and the root directory
HomeValues ==
    {None, Some(TestDir), Some(TestDir \o <<SLASH>>), Some(<<SLASH>> \o TestDir),
     Some(HomeDir), Some(<<SLASH>>)}

\* no filename, the three paths of the tests, a relative and an empty name
Filenames == {None, Some(DotPgpass), Some(<<>>)} \cup {Some(p) : p \in Paths}

InitDefault ==
    /\ fexists \in BOOLEAN
    /\ fowned = TRUE
    /\ fmode = DefaultMode
    /\ fcontent = (IF fexists THEN FileTwo ELSE <<>>)
    /\ pgpass = NoObject
    /\ last = NoCall
    /\ intent = None
    /\ home \in HomeValues
    /\ handler = NoHandler
    /\ driver = NoDriver
    /\ calls = OneCaller

NextDefault ==
    \/ \E filename \in Filenames, force \in BOOLEAN : Construct(filename, force)
    \/ StartCall(1, 1, "entries", None)
    \/ ExistsStep(1)
    \/ AccessStep(1)
    \/ StatStep(1)
    \/ ReadFileStep(1)
    \/ ParseStep(1)
    \/ ReturnStep(1)
    \/ \E c \in {FileBla, FileTwo} : WriteFile(c)
    \/ Remove

SpecDefault == InitDefault /\ [][NextDefault]_vars

(***************************************************************************)
(* The handler: every BaseDbHandler of the values below on every state of  *)
(* the file, and its check_password()                                      *)
(***************************************************************************)
HandlerHosts == {Some(<<"a", "p">>), Some(DefaultDbHost)}

HandlerPorts == {54, DefaultDbPort}

HandlerPasswords == {None, Some(<<>>), Some(<<"p", "w">>)}

HandlerFiles == {None, Some(FilePath), Some(MissingPath)}

InitHandler ==
    /\ \/ fexists = TRUE /\ fmode \in {DefaultMode, 420}
             /\ fcontent \in {<<>>, FileBla, FileTwo}
       \/ fexists = FALSE /\ fmode = DefaultMode /\ fcontent = <<>>
    /\ fowned \in (IF fexists THEN BOOLEAN ELSE {TRUE})
    /\ pgpass = NoObject
    /\ last = NoCall
    /\ intent = None
    /\ home \in {None, Some(TestDir), Some(HomeDir)}
    /\ handler = NoHandler
    /\ driver = NoDriver
    /\ calls = OneCaller

\* one handler is constructed, then check_password() is called on it
NextHandler ==
    \/ ~handler.initialized
          /\ \E h \in HandlerHosts, p \in HandlerPorts,
                d \in {None, Some(<<"v", "d">>)}, u \in {None, Some(<<"g", "f">>)},
                pw \in HandlerPasswords, f \in HandlerFiles :
                NewHandler(h, p, d, u, pw, NoneParams, f, FALSE, FALSE, FALSE)
    \/ \E value \in BOOLEAN : SetAutoConnect(value)
    \/ CheckPassword
    \/ LookupInitStep
    \/ ExistsStep(1)
    \/ AccessStep(1)
    \/ StatStep(1)
    \/ ReadFileStep(1)
    \/ ParseStep(1)
    \/ FindStep(1)
    \/ CheckPasswordReturn

SpecHandler == InitHandler /\ [][NextHandler]_vars

(***************************************************************************)
(* The connection: one BaseDbHandler, constructed with and without         *)
(* auto_connect, and its connect, open_cursor, close_cursor and close      *)
(***************************************************************************)
InitConnect ==
    /\ \/ fexists = TRUE /\ fmode \in {DefaultMode, 420} /\ fcontent = FileTwo
       \/ fexists = FALSE /\ fmode = DefaultMode /\ fcontent = <<>>
    /\ fowned \in (IF fexists THEN BOOLEAN ELSE {TRUE})
    /\ pgpass = NoObject
    /\ last = NoCall
    /\ intent = None
    /\ home = Some(TestDir)
    /\ handler = NoHandler
    /\ driver = NoDriver
    /\ calls = OneCaller

\* one handler is constructed, with and without auto_connect, and its
\* methods are called
NextConnect ==
    \/ ~handler.initialized
          /\ \E p \in HandlerPorts, pw \in HandlerPasswords, f \in HandlerFiles,
                auto_connect \in BOOLEAN, simulate \in BOOLEAN, ok \in BOOLEAN :
                NewHandler(Some(<<"a", "p">>), p, Some(<<"v", "d">>),
                           Some(<<"g", "f">>), pw, NoneParams, f, auto_connect,
                           simulate, ok)
    \/ CheckPassword
    \/ CheckPasswordReturn
    \/ \E ok \in BOOLEAN : Connect(ok)
    \/ \E ok \in BOOLEAN : ConnectReturn(ok)
    \/ LookupInitStep
    \/ ExistsStep(1)
    \/ AccessStep(1)
    \/ StatStep(1)
    \/ ReadFileStep(1)
    \/ ParseStep(1)
    \/ FindStep(1)
    \/ OpenCursor
    \/ CloseCursor
    \/ Close

SpecConnect == InitConnect /\ [][NextConnect]_vars

(***************************************************************************)
(* The life of the handlers: the name handler is bound to one object after *)
(* the other and deleted, and the dict connect_params is written to        *)
(***************************************************************************)
InitLifetime ==
    /\ fexists = TRUE
    /\ fowned = TRUE
    /\ fmode = DefaultMode
    /\ fcontent = FileTwo
    /\ pgpass = NoObject
    /\ last = NoCall
    /\ intent = None
    /\ home = Some(TestDir)
    /\ handler = NoHandler
    /\ driver = NoDriver
    /\ calls = OneCaller

\* the values given for connect_params, and the item put into the dict
\* afterwards
ConnectParamsGiven == {NoneParams, EmptyParams, TimeoutParams, StrParams}

ConnectParamsPut == {<<"password", Some(<<"x">>)>>}

NextLifetime ==
    \/ \E cp \in ConnectParamsGiven, auto_connect \in BOOLEAN, ok \in BOOLEAN :
          NewHandler(Some(<<"a", "p">>), 54, Some(<<"v", "d">>), Some(<<"g", "f">>),
                     Some(<<"p", "w">>), cp, Some(FilePath), auto_connect, FALSE, ok)
    \/ DelHandler
    \/ \E kv \in ConnectParamsPut : SetConnectParam(kv[1], kv[2])
    \/ \E ok \in BOOLEAN : Connect(ok)
    \/ OpenCursor
    \/ CloseCursor
    \/ Close

SpecLifetime == InitLifetime /\ [][NextLifetime]_vars

(***************************************************************************)
(* Two callers on two PgPassFile objects of one file that nobody changes   *)
(***************************************************************************)
ConcurrentQueries ==
    {Query(Some(<<"a", "p">>), Some(54), Some(<<"v", "d">>), Some(<<"g", "f">>)),
     Query(Some(<<"l", "o">>), Some(54), Some(<<"v", "d">>), Some(<<"g", "f">>)),
     Query(Some(<<"l", "o">>), Some(55), Some(<<"v", "d">>), Some(<<"g", "f">>))}

ConcurrentCalls ==
    {[op |-> "entries", query |-> None]}
        \cup {[op |-> "get_passwd", query |-> q] : q \in ConcurrentQueries}

InitConcurrent ==
    /\ \/ fexists = TRUE /\ fmode \in {DefaultMode, 420}
             /\ fcontent \in {FileTwo, FileCorrupt}
       \/ fexists = FALSE /\ fmode = DefaultMode /\ fcontent = <<>>
    /\ fowned \in (IF fexists THEN BOOLEAN ELSE {TRUE})
    /\ pgpass = NoObject
    /\ last = NoCall
    /\ intent = None
    /\ home = Some(HomeDir)
    /\ handler = NoHandler
    /\ driver = NoDriver
    /\ \E f1 \in BOOLEAN, f2 \in BOOLEAN :
          calls = [objs |-> <<[initialized |-> TRUE, filename |-> FilePath,
                               force |-> f1],
                              [initialized |-> TRUE, filename |-> FilePath,
                               force |-> f2]>>,
                   threads |-> <<IdleCall, IdleCall>>]

NextConcurrent ==
    \/ \E t \in Callers, o \in {1, 2}, c \in ConcurrentCalls :
          StartCall(t, o, c.op, c.query)
    \/ \E t \in Callers : ExistsStep(t)
    \/ \E t \in Callers : AccessStep(t)
    \/ \E t \in Callers : StatStep(t)
    \/ \E t \in Callers : ReadFileStep(t)
    \/ \E t \in Callers : ParseStep(t)
    \/ \E t \in Callers : FindStep(t)
    \/ \E t \in Callers : ReturnStep(t)

SpecConcurrent == InitConcurrent /\ [][NextConcurrent]_vars

(***************************************************************************)
(* What the specification says of matching, stated without the code        *)
(***************************************************************************)
\* x and y are the same character, or the two cases of one letter
SameLetter(x, y) ==
    \/ x = y
    \/ \E k \in 1..Len(UpperChars) : {x, y} = {UpperChars[k], LowerChars[k]}

SameIgnoringCase(a, b) ==
    /\ Len(a) = Len(b)
    /\ \A i \in 1..Len(a) : SameLetter(a[i], b[i])

\* a query as the specification has it: all four values are concrete
ConcreteQuery(q) ==
    ~IsNone(q.hostname) /\ ~IsNone(q.port) /\ ~IsNone(q.database) /\ ~IsNone(q.username)

\* every non-wildcard field of the entry equals the query's value
EntryMatches(e, q) ==
    /\ IsNone(e.hostname) \/ SameIgnoringCase(Val(e.hostname), Val(q.hostname))
    /\ IsNone(e.port) \/ Val(e.port) = Val(q.port)
    /\ IsNone(e.database) \/ SameIgnoringCase(Val(e.database), Val(q.database))
    /\ IsNone(e.username) \/ SameIgnoringCase(Val(e.username), Val(q.username))

\* the password of the first entry in file order that matches, else None
FirstMatch(es, q) ==
    IF \E i \in 1..Len(es) : EntryMatches(es[i], q)
    THEN Some(es[CHOOSE i \in 1..Len(es) :
                    /\ EntryMatches(es[i], q)
                    /\ \A j \in 1..(i - 1) : ~EntryMatches(es[j], q)].password)
    ELSE None

\* C1: get_passwd returns the password of the first entry in file order that
\* matches the query, whatever later entries match, and None exactly when no
\* entry matches.
C1_FirstMatchWins ==
    (last.op = "get_passwd" /\ ConcreteQuery(last.args))
    => /\ last.exc = NoExc
       /\ last.value = FirstMatch(EntriesResult(pgpass).value, last.args)

\* C1 witness: the all-wildcard line comes first and wins over the later,
\* fully specific line that matches too.
C1_Witness ==
    /\ last.op = "get_passwd"
    /\ fcontent = TextOf(<< Line(<< Star, Star, Star, Star, <<"7">> >>),
                            Line(<< <<"a">>, <<"5">>, <<"d">>, <<"u">>, <<"1">> >>) >>)
    /\ last.args = Query(Some(<<"A">>), Some(5), Some(<<"d">>), Some(<<"u">>))
    /\ last.value = Some(<<"7">>)

\* C2: match is true iff every non-wildcard field of the entry equals the
\* query's value, strings compared ignoring case and the port as an integer.
C2_MatchIffFieldsAgree ==
    (last.op = "match" /\ ConcreteQuery(last.args.query))
    => /\ last.exc = NoExc
       /\ last.value = EntryMatches(last.args.entry, last.args.query)

\* C2 witness: an entry with hostname B matched a query for host b.
C2_Witness ==
    /\ last.op = "match"
    /\ last.args.entry.hostname = Some(<<"B">>)
    /\ last.args.query.hostname = Some(<<"b">>)
    /\ last.value = TRUE

(***************************************************************************)
(* What the specification says of the permission gate and of failures      *)
(***************************************************************************)
\* some permission bit of the group or of others is set
AnyGroupOrOtherBit(mode) == (mode \div 8) % 8 # 0 \/ mode % 8 # 0

ReadingOps == {"read", "entries", "get_passwd"}

\* the call that returned last ran on a file that no other program changed
\* in the meantime (a change of the file during a read is outside what the
\* specification covers)
Undisturbed == ~last.changed

\* a reading call made with arguments of the documented types
ReadingCall ==
    /\ last.op \in ReadingOps
    /\ Undisturbed
    /\ last.op = "get_passwd" => ConcreteQuery(last.args)

\* the PgPassFile is one of the credential file
OnTheFile == pgpass.filename = FilePath

\* what the path of the PgPassFile names is there: the credential file when
\* it exists, a directory always
PathIsThere == IF OnTheFile THEN fexists ELSE pgpass.filename \in Directories

\* C3: on a file with a group or other permission bit, without force read()
\* returns '' and entries() returns [] without raising and without reading
\* the file; with force the content is returned and parsed as it would be
\* under strict permissions.
C3_TooOpenGivesEmptyUnlessForced ==
    ( /\ last.op \in {"read", "entries"}
      /\ Undisturbed
      /\ OnTheFile
      /\ fexists /\ faccess /\ AnyGroupOrOtherBit(fmode) )
    => /\ last.exc = NoExc
       /\ ~pgpass.force
              => (last.value = <<>> /\ ~last.fileRead /\ last.warns = <<"permissions">>)
       /\ (pgpass.force /\ last.op = "read") => last.value = fcontent
       /\ (pgpass.force /\ last.op = "entries")
              => last.value = ParseContent(fcontent).value

\* C3 witness: entries() on a file of two valid lines with mode 0644 and no
\* force returned the empty list.
C3_Witness ==
    /\ last.op = "entries"
    /\ Undisturbed
    /\ OnTheFile
    /\ fmode = 420
    /\ ~pgpass.force
    /\ fcontent = FileTwo
    /\ last.exc = NoExc
    /\ last.value = <<>>

\* C4 (as claimed): read(), entries() and get_passwd() raise
\* PgPassFileNotExistsError when the path does not exist and
\* PgPassFileNotReadableError when it exists but cannot be read, whatever
\* force and the mode are, and raise nothing else.
C4_OnlyNotExistsAndNotReadable ==
    ReadingCall
    => /\ ~PathIsThere => last.exc = NotExistsError
       /\ (PathIsThere /\ OnTheFile /\ ~faccess) => last.exc = NotReadableError
       /\ last.exc \in {NoExc, NotExistsError, NotReadableError}

\* the file or directory a path of Paths leads to
ClaimedTarget(path) ==
    IF path \in {FilePath, LinkPath, SlashSlashPath} THEN FilePath ELSE path

\* the path of Paths exists
ClaimedThere(path) ==
    \/ ClaimedTarget(path) = FilePath /\ fexists
    \/ ClaimedTarget(path) \in Directories

\* C5: the constructor raises PgPassFileNotExistsError for a missing path and
\* otherwise stores the resolved path; every later read checks existence
\* again and raises PgPassFileNotExistsError once the file is gone.
C5_ExistenceCheckedAtInitAndAtRead ==
    /\ last.op = "init"
       => /\ last.exc = (IF ClaimedThere(last.args.path) THEN NoExc ELSE NotExistsError)
          /\ last.exc = NoExc
               => /\ pgpass.initialized
                  /\ pgpass.filename = ClaimedTarget(last.args.path)
                  /\ pgpass.force = last.args.force
    /\ (last.op \in ReadingOps /\ Undisturbed /\ OnTheFile /\ ~fexists)
          => last.exc = NotExistsError

\* C5 witness: a PgPassFile was constructed, the file was removed, and the
\* next entries() raised PgPassFileNotExistsError.
C5_Witness ==
    /\ pgpass.initialized
    /\ OnTheFile
    /\ ~fexists
    /\ last.op = "entries"
    /\ Undisturbed
    /\ last.exc = NotExistsError

(***************************************************************************)
(* What the specification says of a line, stated without the parser        *)
(***************************************************************************)
\* the positions of the colons not immediately preceded by a backslash
UnescapedColons(line) ==
    {i \in 1..Len(line) : line[i] = COLON /\ (i = 1 \/ line[i - 1] # BS)}

\* the k-th of them, counted from the left
SepAt(line, k) ==
    CHOOSE i \in UnescapedColons(line) :
        Cardinality({j \in UnescapedColons(line) : j < i}) = k - 1

\* the k-th of the five raw fields of a line with at least four separators
RawField(line, k) ==
    SubSeq(line,
           IF k = 1 THEN 1 ELSE SepAt(line, k - 1) + 1,
           IF k = NFields THEN Len(line) ELSE SepAt(line, k) - 1)

\* the line is neither blank nor a comment
IsRecordLine(raw) == Strip(raw) # <<>> /\ Strip(raw)[1] # HASH

\* a record line that splits into five fields
HasFiveFields(raw) ==
    IsRecordLine(raw) /\ Cardinality(UnescapedColons(Strip(raw))) >= MaxSplit

\* a record line that does not split into five fields
IsMalformed(raw) == IsRecordLine(raw) /\ ~HasFiveFields(raw)

\* the text denotes an integer: decimal digits, at most one sign before
\* them, blanks around the digits and the sign
IsIntegerText(f) ==
    \E a \in 1..Len(f), b \in 1..Len(f), sign \in 0..Len(f) :
        /\ a <= b
        /\ sign < a
        /\ \A i \in a..b : IsDigit(f[i])
        /\ \A i \in (b + 1)..Len(f) : IsSpace(f[i])
        /\ \A i \in 1..(a - 1) :
               IF i = sign THEN f[i] \in {"+", "-"} ELSE IsSpace(f[i])

PortFieldOk(raw) ==
    LET f == RawField(Strip(raw), 2)
    IN  f = <<STAR>> \/ IsIntegerText(f)

\* every \\ replaced by \ (left to right), then every \: replaced by :
RECURSIVE ReplacePairFrom(_, _, _, _, _)
ReplacePairFrom(s, i, a, b, c) ==
    IF i > Len(s) THEN <<>>
    ELSE IF i < Len(s) /\ s[i] = a /\ s[i + 1] = b
         THEN <<c>> \o ReplacePairFrom(s, i + 2, a, b, c)
         ELSE <<s[i]>> \o ReplacePairFrom(s, i + 1, a, b, c)

Unescaped(f) ==
    ReplacePairFrom(ReplacePairFrom(f, 1, BS, BS, BS), 1, BS, COLON, COLON)

WildOrUnescaped(f) == IF f = <<STAR>> THEN None ELSE Some(Unescaped(f))

\* the entry a five-field line with a good port stands for
ExpectedEntry(raw) ==
    LET l == Strip(raw)
    IN  [hostname |-> WildOrUnescaped(RawField(l, 1)),
         port |-> IF RawField(l, 2) = <<STAR>> THEN None
                  ELSE Some(IntValue(RawField(l, 2))),
         database |-> WildOrUnescaped(RawField(l, 3)),
         username |-> WildOrUnescaped(RawField(l, 4)),
         password |-> Unescaped(RawField(l, 5))]

RECURSIVE ExpectedEntries(_)
ExpectedEntries(lines) ==
    IF lines = <<>> THEN <<>>
    ELSE (IF HasFiveFields(Head(lines)) /\ PortFieldOk(Head(lines))
          THEN <<ExpectedEntry(Head(lines))>> ELSE <<>>)
         \o ExpectedEntries(Tail(lines))

\* the lines of the file
FileLines == SplitLines(fcontent)

RECURSIVE WithoutMalformed(_)
WithoutMalformed(lines) ==
    IF lines = <<>> THEN <<>>
    ELSE (IF IsMalformed(Head(lines)) THEN <<>> ELSE <<Head(lines)>>)
         \o WithoutMalformed(Tail(lines))

\* C6: a line that does not split into exactly 5 fields is skipped without
\* raising: entries() returns what it returns for the same file with every
\* malformed line removed.
C6_MalformedLinesChangeNothing ==
    last.op = "entries"
    => /\ last.exc = NoExc
       /\ last.value = ParseContent(TextOf(WithoutMalformed(FileLines))).value

\* C6 witness: the file has a line of three fields followed by a valid line,
\* and entries() returned the one entry of the valid line.
C6_Witness ==
    /\ last.op = "entries"
    /\ fcontent = TextOf(<< Line(<< <<"a">>, <<"5">>, <<>> >>),
                            Line(<< <<"a">>, <<"5">>, Star, <<"u">>, <<"p">> >>) >>)
    /\ Len(last.value) = 1
    /\ last.value[1].password = <<"p">>

\* the number of warnings of one kind
CountWarns(warns, kind) == Cardinality({k \in 1..Len(warns) : warns[k] = kind})

\* C7: a 5-field line whose port is neither * nor an integer yields no entry
\* and no error but one warning, the other lines are still parsed, and
\* nothing in the host, database or user field makes a 5-field line be
\* skipped: entries() returns one entry for each 5-field line with a good
\* port and warns once for each 5-field line with a bad one.
C7_OnlyThePortSkipsALine ==
    last.op = "entries"
    => /\ last.exc = NoExc
       /\ Len(last.value) =
            Cardinality({i \in 1..Len(FileLines) :
                            HasFiveFields(FileLines[i]) /\ PortFieldOk(FileLines[i])})
       /\ CountWarns(last.warns, "port") =
            Cardinality({i \in 1..Len(FileLines) :
                            HasFiveFields(FileLines[i]) /\ ~PortFieldOk(FileLines[i])})

\* C7 witness: a line with port 5t is followed by a valid line, and entries()
\* returned only the entry of the valid line.
C7_Witness ==
    /\ last.op = "entries"
    /\ fcontent = TextOf(<< Line(<< <<"a">>, <<"5", "t">>, Star, <<"u">>, <<"p">> >>),
                            Line(<< <<"a">>, <<"0">>, <<"d">>, <<"u">>, <<"p">> >>) >>)
    /\ last.exc = NoExc
    /\ last.warns = <<"port">>
    /\ Len(last.value) = 1
    /\ last.value[1].database = Some(<<"d">>)

\* C8 (as claimed): every entry returned by entries() has a port that is the
\* wildcard or an integer in 1..65535.
C8_PortInRange ==
    last.op = "entries"
    => \A i \in 1..Len(last.value) :
          \/ IsNone(last.value[i].port)
          \/ Val(last.value[i].port) \in 1..65535

\* C9: a line is split only at colons not immediately preceded by a
\* backslash, and each field value is the raw field with every \\ replaced by
\* \ and then every \: replaced by : (None for a raw *, the integer for the
\* port).
C9_SplitAndUnescape ==
    last.op = "entries"
    => /\ last.exc = NoExc
       /\ last.value = ExpectedEntries(FileLines)

\* C9 witness: the line local\host:5432:*:glass\:fish:ov\:La\:nel3\:\:oh
\* was parsed into hostname local\host, port 5432, any database, username
\* glass:fish and password ov:La:nel3::oh.
C9_Witness ==
    /\ last.op = "entries"
    /\ fcontent = TextOf(<<ExampleLine>>)
    /\ last.value =
         << PgPassEntry(
              Some(<<"l", "o", "c", "a", "l", BS, "h", "o", "s", "t">>),
              Some(5432),
              None,
              Some(<<"g", "l", "a", "s", "s", COLON, "f", "i", "s", "h">>),
              <<"o", "v", COLON, "L", "a", COLON, "n", "e", "l", "3", COLON, COLON, "o", "h">>) >>

\* C10 (as claimed): a line written from any field values by escaping each
\* backslash as \\ and each colon as \: is parsed back into exactly one entry
\* carrying those values.
C10_EscapeRoundTrip ==
    last.op = "entries"
    => last.value =
         << PgPassEntry(Some(Val(intent).hostname), Some(5432),
                        Some(Val(intent).database), Some(Val(intent).username),
                        Val(intent).password) >>

(***************************************************************************)
(* What the specification says of each line of a file                      *)
(***************************************************************************)
\* the line stands for an entry: five fields and a good port
IsValidLine(raw) == HasFiveFields(raw) /\ PortFieldOk(raw)

\* the place in the result of the entry of the i-th line
EntryIndex(lines, i) == Cardinality({j \in 1..i : IsValidLine(lines[j])})

\* the text after the fourth unescaped colon of the trimmed line
AfterFourthColon(raw) ==
    LET l == Strip(raw) IN SubSeq(l, SepAt(l, MaxSplit) + 1, Len(l))

\* C11: splitting stops after the fourth unescaped colon: a line with more
\* than four unescaped colons (and a good port) still yields an entry, and
\* its password is everything after the fourth unescaped colon, further
\* unescaped colons included.
C11_RestBelongsToPassword ==
    last.op = "entries"
    => \A i \in 1..Len(FileLines) :
          ( /\ IsRecordLine(FileLines[i])
            /\ Cardinality(UnescapedColons(Strip(FileLines[i]))) > MaxSplit
            /\ PortFieldOk(FileLines[i]) )
          => /\ EntryIndex(FileLines, i) <= Len(last.value)
             /\ last.value[EntryIndex(FileLines, i)].password
                  = Unescaped(AfterFourthColon(FileLines[i]))

\* C11 witness: the line a:5:d:u:p:q:r was parsed into one entry with the
\* password p:q:r.
C11_Witness ==
    /\ last.op = "entries"
    /\ fcontent = TextOf(<< Line(<< <<"a">>, <<"5">>, <<"d">>, <<"u">>,
                                    <<"p">>, <<"q">>, <<"r">> >>) >>)
    /\ Len(last.value) = 1
    /\ last.value[1].username = Some(<<"u">>)
    /\ last.value[1].password = <<"p", COLON, "q", COLON, "r">>

\* C12: in every parsed entry hostname, port, database and username are the
\* wildcard (None) exactly when their raw text is the single character *,
\* and a raw password * is the literal password *.
C12_WildcardIffStar ==
    last.op = "entries"
    => \A i \in 1..Len(FileLines) :
          IsValidLine(FileLines[i])
          => LET l == Strip(FileLines[i])
                 k == EntryIndex(FileLines, i)
             IN  /\ k <= Len(last.value)
                 /\ IsNone(last.value[k].hostname) <=> (RawField(l, 1) = <<STAR>>)
                 /\ IsNone(last.value[k].port) <=> (RawField(l, 2) = <<STAR>>)
                 /\ IsNone(last.value[k].database) <=> (RawField(l, 3) = <<STAR>>)
                 /\ IsNone(last.value[k].username) <=> (RawField(l, 4) = <<STAR>>)
                 /\ (RawField(l, 5) = <<STAR>>) => last.value[k].password = <<STAR>>

\* C12 witness: the line *:*:*:*:* was parsed into an entry with four
\* wildcards and the password *.
C12_Witness ==
    /\ last.op = "entries"
    /\ fcontent = TextOf(<< Line(<< Star, Star, Star, Star, Star >>) >>)
    /\ last.value = << PgPassEntry(None, None, None, None, <<STAR>>) >>

\* C13: blank lines and lines whose trimmed form begins with # produce no
\* entry and no warning: entries() returns as many entries as the file has
\* valid lines, and warns once for each other line that is neither blank
\* nor a comment.
C13_BlankAndCommentLinesAreSilent ==
    last.op = "entries"
    => /\ last.exc = NoExc
       /\ Len(last.value) =
            Cardinality({i \in 1..Len(FileLines) : IsValidLine(FileLines[i])})
       /\ Len(last.warns) =
            Cardinality({i \in 1..Len(FileLines) :
                            IsRecordLine(FileLines[i]) /\ ~IsValidLine(FileLines[i])})

\* C13 witness: the file holds the comment " #a:5:d:u:p" and a valid line,
\* and entries() returned the entry of the valid line and warned of nothing.
C13_Witness ==
    /\ last.op = "entries"
    /\ fcontent = TextOf(<< <<" ", HASH>>
                               \o Line(<< <<"a">>, <<"5">>, <<"d">>, <<"u">>, <<"p">> >>),
                            Line(<< <<"a">>, <<"5">>, Star, <<"u">>, <<"p">> >>) >>)
    /\ last.warns = <<>>
    /\ Len(last.value) = 1
    /\ last.value[1].database = None

\* what entries() returns for a file of the one line
EntriesOfLine(raw) == ParseContent(TextOf(<<raw>>)).value

\* the entries of each line, one line after the other
RECURSIVE LineByLine(_)
LineByLine(lines) ==
    IF lines = <<>> THEN <<>>
    ELSE EntriesOfLine(Head(lines)) \o LineByLine(Tail(lines))

\* C14: entries() preserves file order and multiplicity: what it returns for
\* a file is what it returns for each line alone, put together in the order
\* of the lines, equal lines giving separate elements.
C14_OrderAndMultiplicityKept ==
    last.op = "entries"
    => /\ last.exc = NoExc
       /\ last.value = LineByLine(FileLines)

\* C14 witness: a file of twice the same valid line gave two equal entries.
C14_Witness ==
    /\ last.op = "entries"
    /\ fcontent = TextOf(<< Line(<< <<"a">>, <<"5">>, Star, <<"u">>, <<"p">> >>),
                            Line(<< <<"a">>, <<"5">>, Star, <<"u">>, <<"p">> >>) >>)
    /\ Len(last.value) = 2
    /\ last.value[1] = last.value[2]

\* the password as written: the unescaped text after the fourth unescaped
\* colon of the line of the file
WrittenPassword(raw) == Unescaped(RawField(raw, NFields))

\* the valid lines whose entry matches the query
MatchingLines(q) ==
    {i \in 1..Len(FileLines) :
        IsValidLine(FileLines[i]) /\ EntryMatches(ExpectedEntry(FileLines[i]), q)}

\* C16 (as claimed): the password of the entry of every valid line, and the
\* value get_passwd returns for a matching query, is exactly the unescaped
\* text of the fifth field as written in the file; an empty fifth field gives
\* '' and not None.
C16_PasswordVerbatim ==
    /\ last.op = "entries"
       => \A i \in 1..Len(FileLines) :
             IsValidLine(FileLines[i])
             => /\ EntryIndex(FileLines, i) <= Len(last.value)
                /\ last.value[EntryIndex(FileLines, i)].password
                     = WrittenPassword(FileLines[i])
    /\ (last.op = "get_passwd" /\ ConcreteQuery(last.args)
           /\ MatchingLines(last.args) # {})
       => LET first == CHOOSE i \in MatchingLines(last.args) :
                           \A j \in MatchingLines(last.args) : i <= j
          IN  /\ last.exc = NoExc
              /\ last.value = Some(WrittenPassword(FileLines[first]))

(***************************************************************************)
(* What the specification says of repeated calls and of side effects       *)
(***************************************************************************)
\* the entries the file holds for the caller at this moment: none through
\* the closed permission gate, else those of its lines
EntriesNow ==
    IF AnyGroupOrOtherBit(fmode) /\ ~pgpass.force THEN <<>>
    ELSE ExpectedEntries(FileLines)

\* C15: nothing parsed is kept between calls: after any history of calls and
\* of changes to the file, what entries() and get_passwd() return is
\* determined by the content and the mode of the file at the time of the
\* call (and the object's force flag and the query) alone.
C15_NothingKeptBetweenCalls ==
    (Undisturbed /\ OnTheFile /\ fexists /\ faccess)
    => /\ last.op = "entries" => (last.exc = NoExc /\ last.value = EntriesNow)
       /\ (last.op = "get_passwd" /\ ConcreteQuery(last.args))
            => (last.exc = NoExc /\ last.value = FirstMatch(EntriesNow, last.args))

\* C15 witness: the file, which held the one line bla at first, has been
\* rewritten with two valid lines and opened to group and others, and
\* entries() on an object without force returned the empty list.
C15_Witness ==
    /\ last.op = "entries"
    /\ Undisturbed
    /\ fcontent = FileTwo
    /\ fmode = 416
    /\ ~pgpass.force
    /\ pgpass.filename = FilePath
    /\ last.value = <<>>
    /\ last.fileRead = FALSE

\* C17 (as claimed): get_passwd and match take None for hostname, database
\* and username and return without raising, whatever the entries are.
C17_NoneQueryAccepted ==
    /\ (last.op = "match" /\ ~IsNone(last.args.query.port)) => last.exc = NoExc
    /\ ( /\ last.op = "get_passwd" /\ ~IsNone(last.args.port)
         /\ Undisturbed /\ OnTheFile /\ fexists /\ faccess )
          => last.exc = NoExc

\* a step of read(), entries() or get_passwd(): the call of some caller
\* moves on
ReadingStep ==
    \E t \in DOMAIN calls.threads : calls'.threads[t].pc # calls.threads[t].pc

\* C19: read(), entries() and get_passwd() are read-only: whether the call
\* succeeds, returns empty or raises, it leaves the existence, the content
\* and the mode of the file and the filename and force of the PgPassFile as
\* they were.
C19_ReadingChangesNothing ==
    [][ReadingStep
         => /\ fexists' = fexists /\ fowned' = fowned
            /\ fmode' = fmode /\ fcontent' = fcontent
            /\ pgpass'.filename = pgpass.filename
            /\ pgpass'.force = pgpass.force]_vars

\* C19 witness: read() without force on the two-line file of mode 0644 has
\* warned and returned the empty text, and the file still has its mode and
\* its lines.
C19_Witness ==
    /\ last.op = "read"
    /\ Undisturbed
    /\ OnTheFile
    /\ last.warns = <<"permissions">>
    /\ last.value = <<>>
    /\ ~pgpass.force
    /\ fmode = 420
    /\ fcontent = FileTwo

(***************************************************************************)
(* What the specification says of the default file                         *)
(***************************************************************************)
\* the names between the slashes of a path
PathParts(p) == SelectSeq(SplitSlashFrom(p, 1, 1), LAMBDA c : c # <<>>)

\* the path names the credential file: it is the link to it, or it has the
\* parts of FilePath, counted from the working directory when relative
NamesTheFile(p) ==
    /\ p # <<>>
    /\ \/ p = LinkPath
       \/ PathParts(IF IsAbs(p) THEN p ELSE Cwd \o <<SLASH>> \o p) = PathParts(FilePath)

\* the path the constructor is to use for the filename it was given
ClaimedPath(filename) ==
    IF ~IsNone(filename) THEN Val(filename)
    ELSE IF IsNone(home) THEN DotPgpass
    ELSE Val(home) \o <<SLASH>> \o DotPgpass

\* the path names the directory of the tests
NamesTheDir(p) ==
    /\ p # <<>>
    /\ PathParts(IF IsAbs(p) THEN p ELSE Cwd \o <<SLASH>> \o p) = PathParts(TestDir)

\* C18: without a filename PgPassFile uses the file .pgpass in the directory
\* HOME, and the relative name .pgpass when HOME is unset; a filename that is
\* given is used as it is.  The constructor succeeds exactly when that path
\* names the existing file or a directory.
C18_DefaultFileIsHomePgpass ==
    last.op = "init"
    => /\ ~IsNone(last.args.filename) => last.args.path = Val(last.args.filename)
       /\ (IsNone(last.args.filename) /\ IsNone(home)) => last.args.path = DotPgpass
       /\ (IsNone(last.args.filename) /\ ~IsNone(home))
             => /\ IsAbs(last.args.path)
                /\ PathParts(last.args.path) = PathParts(Val(home)) \o <<DotPgpass>>
       /\ (last.exc = NoExc)
             <=> \/ fexists /\ NamesTheFile(ClaimedPath(last.args.filename))
                 \/ NamesTheDir(ClaimedPath(last.args.filename))
       /\ last.exc # NoExc => last.exc = NotExistsError
       /\ last.exc = NoExc
             => pgpass.filename = (IF NamesTheDir(ClaimedPath(last.args.filename))
                                   THEN TestDir ELSE FilePath)

\* C18 witness: with HOME set to the directory of the file, written with a
\* slash at its end, a PgPassFile constructed without a filename found the
\* file.
C18_Witness ==
    /\ last.op = "init"
    /\ IsNone(last.args.filename)
    /\ home = Some(TestDir \o <<SLASH>>)
    /\ last.exc = NoExc
    /\ last.args.path = FilePath
    /\ pgpass.filename = FilePath

(***************************************************************************)
(* What the specification says of the handler's password                   *)
(***************************************************************************)
\* the password the claim has check_password() leave on a handler that was
\* given none, when its .pgpass file can be read: the one found, else ''
ClaimedPassword(q) ==
    LET found == FirstMatch(IF AnyGroupOrOtherBit(fmode) THEN <<>>
                            ELSE ExpectedEntries(FileLines), q)
    IN  IF IsNone(found) THEN Some(<<>>) ELSE found

\* C20 (as claimed): after check_password() returns, db_passwd is not None:
\* it is the password given at construction, else the one found in the
\* .pgpass file, else '' when nothing was found or the file does not exist,
\* and a missing file raises no error.
C20_PasswordNeverNone ==
    last.op = "check_password"
    => /\ ~IsNone(last.args.db_passwd)
             => (last.exc = NoExc /\ handler.db_passwd = last.args.db_passwd)
       /\ (IsNone(last.args.db_passwd) /\ ~PathExists(UsedFilename(last.args.pgpass_file)))
             => (last.exc = NoExc /\ handler.db_passwd = Some(<<>>))
       /\ ( /\ IsNone(last.args.db_passwd)
            /\ PathExists(UsedFilename(last.args.pgpass_file))
            /\ faccess
            /\ ConcreteQuery(HandlerQuery(last.args)) )
             => /\ last.exc = NoExc
                /\ handler.db_passwd = ClaimedPassword(HandlerQuery(last.args))
       /\ last.exc = NoExc => ~IsNone(handler.db_passwd)


(***************************************************************************)
(* What the specification says of the handler and its connection           *)
(***************************************************************************)
\* the calls that may run check_password()
LooksUpPassword == {"check_password", "connect", "new_handler"}

\* C21: when a password was given (the empty one included), check_password()
\* leaves db_passwd as it is and neither opens nor reads the .pgpass file,
\* whatever the state of that file: no warning, no error of the file, and
\* connect() hands the given password to the driver (or the one that
\* connect_params holds under the key password)
C21_GivenPasswordSkipsTheFile ==
    (last.op \in LooksUpPassword /\ ~IsNone(last.args.db_passwd))
        => /\ ~last.fileRead
           /\ last.warns = <<>>
           /\ last.exc \in {NoExc, OperationalError, BaseDbError}
           /\ last.op = "check_password" => last.exc = NoExc
           /\ (last.op # "new_handler" \/ last.exc = NoExc)
                 => handler.db_passwd = last.args.db_passwd
           /\ (last.exc = NoExc /\ ~IsNone(handler.connection)
                    /\ last.op # "check_password")
                 => driver.conns[Val(handler.connection)].params.password
                        = (IF "password" \in DOMAIN last.args.connect_params
                           THEN last.args.connect_params.password
                           ELSE last.args.db_passwd)
           /\ (last.exc = NoExc /\ last.op = "connect") => ~IsNone(handler.connection)

\* connect() succeeded with the empty password given although the .pgpass
\* file it would have looked at exists and cannot be read
C21_Witness ==
    /\ last.op = "connect"
    /\ last.args.db_passwd = Some(<<>>)
    /\ last.exc = NoExc
    /\ PathExists(UsedFilename(last.args.pgpass_file))
    /\ ~faccess
    /\ driver.conns[Val(handler.connection)].params.password = Some(<<>>)

\* C22: a handler constructed without auto_connect is not connected and has
\* no open cursor; after a connect() that succeeded it is connected and has
\* no open cursor; and the only call after which a cursor is open that was
\* not open before is open_cursor()
C22_ConnectedWithoutCursor ==
    /\ [](/\ (last.op = "new_handler" /\ last.exc = NoExc /\ ~last.args.auto_connect)
                => ~connected(handler, driver) /\ ~cursor_opened(handler, driver)
          /\ (last.op = "connect" /\ last.exc = NoExc)
                => connected(handler, driver) /\ ~cursor_opened(handler, driver))
    /\ [][(cursor_opened(handler', driver') /\ ~cursor_opened(handler, driver))
             => last'.op = "open_cursor"]_vars

\* the second connect() of a handler succeeded, after a cursor had been
\* opened on its first connection
C22_Witness ==
    /\ last.op = "connect"
    /\ last.exc = NoExc
    /\ handler.connection = Some(2)
    /\ Len(driver.cursors) > 0
    /\ connected(handler, driver)
    /\ ~cursor_opened(handler, driver)


\* C23: with auto_connect and no password given, the password lookup of the
\* constructor's connect() is the lookup in the pgpass_file passed to the
\* constructor: it reads, warns and fails as check_password() does on the
\* object with all its arguments stored, and nothing else is raised but the
\* refusal of the driver
C23_AutoConnectLooksInGivenFile ==
    (last.op = "new_handler" /\ last.args.auto_connect /\ IsNone(last.args.db_passwd))
        => /\ last.fileRead
                 = CheckPasswordResult(last.args, LookupResult(last.args)).fileRead
           /\ last.warns
                 = CheckPasswordResult(last.args, LookupResult(last.args)).warns
           /\ IF CheckPasswordResult(last.args, LookupResult(last.args)).exc # NoExc
              THEN last.exc
                      = CheckPasswordResult(last.args, LookupResult(last.args)).exc
              ELSE last.exc \in {NoExc, OperationalError}


(***************************************************************************)
(* What the specification says of concurrent callers                       *)
(***************************************************************************)
\* what the call of the caller t returns when it runs alone
AloneResult(t) ==
    IF calls.threads[t].op = "entries"
    THEN EntriesResult(calls.objs[calls.threads[t].obj])
    ELSE GetPasswdResult(calls.objs[calls.threads[t].obj], calls.threads[t].query)

\* C24: however two entries() and get_passwd() calls on one unchanged file
\* are interleaved, on one PgPassFile object or on two, each ends with the
\* result, the exception and the warnings it has when it runs alone
C24_InterleavedCallsAreIndependent ==
    \A t \in 1..Len(calls.threads) :
        calls.threads[t].pc = "done"
            => /\ calls.threads[t].exc = AloneResult(t).exc
               /\ calls.threads[t].value = AloneResult(t).value
               /\ calls.threads[t].fileRead = AloneResult(t).fileRead
               /\ calls.threads[t].warns = AloneResult(t).warns

\* caller 1 has its password from the forced object while caller 2, on the
\* other object, has read the too-open file and is about to parse
C24_Witness ==
    /\ calls.threads # <<>>
    /\ calls.threads[1].pc = "done"
    /\ calls.threads[1].op = "get_passwd"
    /\ calls.threads[1].value = Some(<<"p", "1">>)
    /\ calls.threads[2].pc = "parse"
    /\ calls.threads[1].obj # calls.threads[2].obj
    /\ calls.objs[calls.threads[1].obj].force
    /\ ~calls.objs[calls.threads[2].obj].force
    /\ TooOpen(fmode)


\* C25: a connect() made while the handler is connected raises BaseDbError
\* and changes nothing: the handler keeps its connection, which stays open,
\* the driver is asked for no connection, and no password is looked up
C25_ConnectWhileConnectedChangesNothing ==
    [][(last'.op = "connect" /\ connected(handler, driver))
          => /\ last'.exc = BaseDbError
             /\ handler' = handler
             /\ driver' = driver
             /\ connected(handler', driver')
             /\ last'.value = <<>>
             /\ ~last'.fileRead
             /\ last'.warns = <<>>]_vars

\* connect() was refused on a connected handler whose lookup had found no
\* password, with the one connection of the driver still open
C25_Witness ==
    /\ last.op = "connect"
    /\ last.exc = BaseDbError
    /\ connected(handler, driver)
    /\ last.args = handler
    /\ IsNone(handler.db_passwd)
    /\ Len(driver.conns) = 1


\* C26: an open_cursor() made while the handler is not connected (it never
\* was, or close() was called) raises BaseDbError and leaves the handler,
\* its cursor attribute included, and the driver as they were; and whenever
\* the driver makes a cursor, it makes it on the open connection of the
\* handler
C26_NoCursorWithoutConnection ==
    [][/\ (last'.op = "open_cursor" /\ ~connected(handler, driver))
             => /\ last'.exc = BaseDbError
                /\ handler'.cursor = handler.cursor
                /\ handler' = handler
                /\ driver' = driver
       /\ Len(driver'.cursors) > Len(driver.cursors)
             => /\ connected(handler, driver)
                /\ Len(driver'.cursors) = Len(driver.cursors) + 1
                /\ driver'.cursors[Len(driver'.cursors)].conn = Val(handler.connection)
                /\ handler'.cursor = Some(Len(driver'.cursors))
                /\ connected(handler', driver')]_vars

\* open_cursor() was refused after close(): the driver has made a
\* connection and a cursor, both are closed and the handler holds neither
C26_Witness ==
    /\ last.op = "open_cursor"
    /\ last.exc = BaseDbError
    /\ Len(driver.conns) = 1
    /\ Len(driver.cursors) = 1
    /\ ConnClosed(driver, 1)
    /\ IsNone(handler.connection)
    /\ IsNone(handler.cursor)


\* the cursors of the driver that are open
OpenCursors == {k \in 1..Len(driver.cursors) : ~CursorClosed(driver, k)}

\* C27: at most one cursor the handler created is open, and an open cursor
\* is the one the handler holds; an open_cursor() on a handler that holds a
\* cursor closes that cursor first and then asks for the new one
C27_AtMostOneOpenCursor ==
    /\ Cardinality(OpenCursors) <= 1
    /\ \A k \in OpenCursors : handler.cursor = Some(k)
    /\ (last.op = "open_cursor" /\ last.exc = NoExc /\ ~IsNone(last.args.cursor))
          => /\ last.value = <<"cursor.close", "cursor">>
             /\ driver.cursors[Val(last.args.cursor)].closed
             /\ handler.cursor # last.args.cursor

\* open_cursor() was called twice on one connection: the first cursor is
\* closed and the handler holds the second, which is open
C27_Witness ==
    /\ last.op = "open_cursor"
    /\ last.args.cursor = Some(1)
    /\ handler.cursor = Some(2)
    /\ OpenCursors = {2}
    /\ driver.cursors[1].closed
    /\ driver.cursors[2].conn = driver.cursors[1].conn
    /\ connected(handler, driver)


\* C28: close() raises nothing and ends with connection and cursor None,
\* neither connected nor a cursor open; a cursor it held is closed before
\* the connection; a close() right after a close() changes nothing; and a
\* connect() right after a close() is not refused as already connected: it
\* is refused so only on a handler that is connected
C28_CloseIsFinalAndRepeatable ==
    /\ [](last.op = "close"
             => /\ last.exc = NoExc
                /\ IsNone(handler.connection)
                /\ IsNone(handler.cursor)
                /\ ~connected(handler, driver)
                /\ ~cursor_opened(handler, driver)
                /\ ~IsNone(last.args.connection)
                      => ConnClosed(driver, Val(last.args.connection))
                /\ ~IsNone(last.args.cursor)
                      => driver.cursors[Val(last.args.cursor)].closed
                /\ last.value = (IF IsNone(last.args.connection) THEN <<>>
                                 ELSE IF IsNone(last.args.cursor)
                                 THEN <<"connection.close">>
                                 ELSE <<"cursor.close", "connection.close">>))
    /\ [][(last.op = "close" /\ last'.op = "close")
             => /\ handler' = handler
                /\ driver' = driver
                /\ last'.exc = NoExc
                /\ last'.value = <<>>]_vars
    /\ [][(last.op = "close" /\ last'.op = "connect")
             => last'.exc # BaseDbError]_vars
    /\ []((last.op = "connect" /\ last.exc = BaseDbError)
             => connected(last.args, driver))

\* the handler was connected again after a close(), a cursor was opened,
\* and close() closed the cursor and then the second connection
C28_Witness ==
    /\ last.op = "close"
    /\ last.args.connection = Some(2)
    /\ last.value = <<"cursor.close", "connection.close">>
    /\ ConnClosed(driver, 1)
    /\ ConnClosed(driver, 2)
    /\ IsNone(handler.connection)
    /\ IsNone(handler.cursor)


\* C29: in every state the methods of the handler lead to, whether they
\* returned or raised, an open cursor on the handler implies that the
\* handler is connected
C29_OpenCursorImpliesConnected ==
    cursor_opened(handler, driver) => connected(handler, driver)

\* the handler has an open cursor on its second connection, and the call
\* that led here raised: connect() was refused as already connected
C29_Witness ==
    /\ last.op = "connect"
    /\ last.exc = BaseDbError
    /\ cursor_opened(handler, driver)
    /\ connected(handler, driver)
    /\ driver.cursors[Val(handler.cursor)].conn = 2
    /\ handler.connection = Some(2)


=============================================================================
